---- MODULE Spec2Model ----
(***************************************************************************)
(* Model of the RECA ProCheck sweep: scripts/full_sweep.py (checkpoint     *)
(* manager, prefix generation, deduplication, search_with_retry, surface   *)
(* sweep, deep scrape, main) over integrations/reca_scraper_logic.py (the  *)
(* session: initialisation, search, result parsing, drillthrough).         *)
(*                                                                         *)
(* The process can be killed at any step; what survives is the three files *)
(* (checkpoint, surface results, deep results).  A file opened with "w" is *)
(* truncated first and written afterwards, so a file has three conditions: *)
(* absent, truncated (json.load raises on it) and complete.                *)
(***************************************************************************)
EXTENDS Integers, Sequences, FiniteSets, TLC

\* ---------------------------------------------------------------- bounds
\* Number of lowercase second letters enumerated (26 in string.ascii_lowercase).
NumSeconds == 1
\* Longest --letters list supplied on the command line.
MaxLetters == 2
\* Number of times the program is started (first run plus restarts).
MaxRuns == 2
\* Surface flush interval, "i % 26" in run_surface_sweep, scaled to the model.
FlushEvery == 2
\* Checkpoint save interval of mark_deep_done, "% 10", scaled to the model.
DeepSaveEvery == 2
\* Deep results flush interval, "i % 50" in run_deep_scrape, scaled to the model.
DeepFlushEvery == 2

\* ------------------------------------------------------ program constants
MAX_RETRIES == 5
\* Attempt number from which search_with_retry re-initialises the session.
ReinitFrom == 3

\* ------------------------------------------------------------- alphabet
\* Letters the command line may supply; "a" is the lowercase form of "A".
LetterChoices == {"A", "a"}
\* str.upper() on one letter.
Upper(l) == IF l = "a" THEN "A" ELSE IF l = "b" THEN "B" ELSE l
\* string.ascii_uppercase, cut to the model's alphabet.
ascii_uppercase == <<"A", "B">>
\* string.ascii_lowercase, cut to NumSeconds letters.
ascii_lowercase == SubSeq(<<"a", "b", "c", "d">>, 1, NumSeconds)

RECURSIVE Flatten(_)
Flatten(ss) == IF ss = <<>> THEN <<>> ELSE Head(ss) \o Flatten(Tail(ss))

\* A prefix is its sequence of characters: <<"A">> or <<"A", "a">>.
\* generate_prefixes(letters); NoLetters stands for letters=None (and for []).
NoLetters == <<>>
generate_prefixes(letters) ==
    LET base_letters == IF letters # <<>>
                        THEN [k \in 1..Len(letters) |-> Upper(letters[k])]
                        ELSE ascii_uppercase
        PerLetter(l) == <<<<l>>>> \o
                        [k \in 1..Len(ascii_lowercase) |-> <<l, ascii_lowercase[k]>>]
    IN  Flatten([k \in 1..Len(base_letters) |-> PerLetter(base_letters[k])])

\* -------------------------------------------------------------- records
\* agent["email"]: <<"absent">> when the key is not set, <<"str", s>> for a
\* string, <<"dict", email, phone>> for a contact_info dict ("none" = None).
\* A name is the sequence of the pieces of its text; "|" is the character.
NoEmail == <<"absent">>
Agent(d, f, l, b) ==
    [drill_id |-> d, first_name |-> f, last_name |-> l, brokerage |-> b, email |-> NoEmail]
R1 == Agent("d1", <<"Ann">>, <<"Abel">>, <<"X">>)
R2 == Agent("d2", <<"Bob">>, <<"Baker">>, <<"Y">>)
R3 == Agent("", <<"Cy">>, <<"Abel">>, <<"X">>)
R4 == Agent("d1", <<"Ann">>, <<"Abel-Smith">>, <<"Z">>)
R5 == Agent("d3", <<"Dee">>, <<"Banks">>, <<"Y">>)

\* f"{agent['first_name']}|{agent['last_name']}|{agent['brokerage']}"
name_key(agent) ==
    agent.first_name \o <<"|">> \o agent.last_name \o <<"|">> \o agent.brokerage

\* The record put in front of the list.
keep_in_front(unique, agent) == <<agent>> \o unique
\* "unique.append(agent)"
keep(unique, agent) == Append(unique, agent)

\* deduplicate_agents: first occurrence of each drill_id, or of each
\* first|last|brokerage key when the drill_id is empty.
RECURSIVE dedup_loop(_, _, _, _)
dedup_loop(agents, seen_ids, seen_keys, unique) ==
    IF agents = <<>> THEN unique
    ELSE LET agent == Head(agents)
             key == name_key(agent)
         IN  IF agent.drill_id # ""
             THEN IF agent.drill_id \in seen_ids
                  THEN dedup_loop(Tail(agents), seen_ids, seen_keys, unique)
                  ELSE dedup_loop(Tail(agents), seen_ids \cup {agent.drill_id},
                                  seen_keys, keep(unique, agent))
             ELSE IF key \in seen_keys
                  THEN dedup_loop(Tail(agents), seen_ids, seen_keys, unique)
                  ELSE dedup_loop(Tail(agents), seen_ids, seen_keys \cup {key},
                                  keep(unique, agent))

\* The loop with a skipped duplicate taken out of the seen set again.
RECURSIVE dedup_loop_forgetful(_, _, _, _)
dedup_loop_forgetful(agents, seen_ids, seen_keys, unique) ==
    IF agents = <<>> THEN unique
    ELSE LET agent == Head(agents)
             key == name_key(agent)
             seen == IF agent.drill_id # "" THEN agent.drill_id \in seen_ids
                     ELSE key \in seen_keys
         IN  IF seen
             THEN dedup_loop_forgetful(Tail(agents), seen_ids \ {agent.drill_id},
                                       seen_keys \ {key}, unique)
             ELSE dedup_loop_forgetful(Tail(agents), seen_ids \cup {agent.drill_id},
                                       seen_keys \cup {key}, Append(unique, agent))
deduplicate_agents_forgetful(agents) == dedup_loop_forgetful(agents, {}, {}, <<>>)
deduplicate_agents(agents) == dedup_loop(agents, {}, {}, <<>>)

Range(s) == {s[k] : k \in 1..Len(s)}
\* The identity deduplicate_agents compares records by.
KeyOf(agent) ==
    IF agent.drill_id # "" THEN <<"id", <<agent.drill_id>>>>
    ELSE <<"name", name_key(agent)>>
KeysOf(agents) == {KeyOf(agents[k]) : k \in 1..Len(agents)}

\* ------------------------------------------------------------ responses
\* What one search postback can come back with: the request raises, the page
\* carries an error signature, the page is fine but has no "Licence History"
\* landmark, or it is a results page whose rows parse to the given agents.
Responses ==
    { [kind |-> "exception", rows |-> <<>>],
      [kind |-> "error", rows |-> <<>>],
      [kind |-> "nolandmark", rows |-> <<R1>>],
      [kind |-> "results", rows |-> <<R1, R3>>],
      [kind |-> "results", rows |-> <<R2, R4, R5>>] }
is_error_response(resp) == resp.kind = "error"
parse_results(resp) == IF resp.kind = "results" THEN resp.rows ELSE <<>>

\* -------------------------------------------------------------- session
\* A form-data dict: a function from field names to values.  A value is the
\* sequence of the pieces its string is put together from.
EmptyForm == [x \in {} |-> <<>>]
Put(d, k, v) == [x \in DOMAIN d \cup {k} |-> IF x = k THEN v ELSE d[x]]
Del(d, k) == [x \in DOMAIN d \ {k} |-> d[x]]

\* Field sets _extract_all_inputs can read off a page of the site.
Form1 == [x \in {"__VIEWSTATE"} |-> <<"v1">>]
Form2 == [x \in {"__VIEWSTATE", "__EVENTTARGET", "Button1", "Button3"} |->
            IF x = "__VIEWSTATE" THEN <<"v2">>
            ELSE IF x = "__EVENTTARGET" THEN <<"old">>
            ELSE IF x = "Button1" THEN <<"Search by Person">> ELSE <<"Search">>]
Forms == {Form1, Form2}

\* One outbound request: what was sent, and _initialized when it was sent.
Req(kind, init, data) == [kind |-> kind, init |-> init, data |-> data]

\* What the site does to one run of _fetch_initial_state: the GET raises, or
\* it returns the landing page and the Button1 postback raises, returns a
\* page with an error signature, or returns the search-by-person page.
InitOutcomes(forms) ==
    {[get |-> "raises", landing |-> EmptyForm, post |-> "none", page |-> EmptyForm]} \cup
    {[get |-> "ok", landing |-> l, post |-> "raises", page |-> EmptyForm] : l \in forms} \cup
    {[get |-> "ok", landing |-> l, post |-> p, page |-> f] :
        l \in forms, p \in {"error", "ok"}, f \in forms}

\* The error check of _fetch_initial_state left out.
init_post_rejected_never(io) == FALSE
\* "if self._is_error_response(resp2.text): raise"
init_post_rejected(io) == io.post = "error"

\* What a session method hands back: the session after it, whether it
\* raised, the requests it sent and its return value.
Outcome(init, base, raised, sent, value) ==
    [initialized |-> init, base |-> base, raised |-> raised, sent |-> sent, value |-> value]

\* RECAHttpScraper._fetch_initial_state.
fetch_initial_state(init, base, io) ==
    LET get == Req("get", init, EmptyForm)
        payload == Del(Del(Put(io.landing, "Button1", <<"Search by Person">>),
                           "Button2"), "Button3")
        post == Req("init_post", init, payload)
    IN  IF io.get = "raises" THEN Outcome(init, base, TRUE, <<get>>, <<>>)
        ELSE IF io.post = "raises" \/ init_post_rejected(io)
             THEN Outcome(init, base, TRUE, <<get, post>>, <<>>)
             ELSE Outcome(TRUE, io.page, FALSE, <<get, post>>, <<>>)

\* The initialisation run whatever _initialized says.
needs_init_always(init) == TRUE
\* "if not self._initialized: self._fetch_initial_state()"
needs_init(init) == ~init

\* The outcomes to draw from for an initialisation that is run only if
\* wanted: when it is not run, the site has nothing to answer.
NoInitOutcome == [get |-> "none", landing |-> EmptyForm, post |-> "none", page |-> EmptyForm]
InitOutcomesIf(wanted, forms) == IF wanted THEN InitOutcomes(forms) ELSE {NoInitOutcome}

\* Whether a run of _fetch_initial_state with this outcome raises.
init_raises(io) == io.get = "raises" \/ io.post = "raises" \/ init_post_rejected(io)
\* The answers to draw from for the postback a method sends after its
\* initialisation: when that raises, the postback is not sent.
NotSent == [kind |-> "notsent", rows |-> <<>>]
AnswersAfter(io, answers) == IF init_raises(io) THEN {NotSent} ELSE answers

\* The head shared by search_by_lastname and perform_drillthrough.
ensure_initialized(init, base, io) ==
    IF needs_init(init) THEN fetch_initial_state(init, base, io)
    ELSE Outcome(init, base, FALSE, <<>>, <<>>)

\* The form search_by_lastname posts.
search_form(base, lastname) == Put(Put(base, "TextBox2", lastname), "Button3", <<"Search">>)

\* The fields of the page laid over the old baseline.
search_by_lastname_merging(init, base, lastname, io, resp, form) ==
    LET r == ensure_initialized(init, base, io)
        sent == Append(r.sent, Req("search_post", r.initialized, search_form(r.base, lastname)))
        merged == [x \in DOMAIN r.base \cup DOMAIN form |->
                      IF x \in DOMAIN form THEN form[x] ELSE r.base[x]]
    IN  IF r.raised THEN r
        ELSE IF resp.kind = "exception" \/ is_error_response(resp)
             THEN Outcome(r.initialized, r.base, TRUE, sent, <<>>)
             ELSE Outcome(r.initialized, merged, FALSE, sent, parse_results(resp))
\* RECAHttpScraper.search_by_lastname: resp is the answer to the search
\* postback and form the inputs of its page.
search_by_lastname(init, base, lastname, io, resp, form) ==
    LET r == ensure_initialized(init, base, io)
        sent == Append(r.sent, Req("search_post", r.initialized, search_form(r.base, lastname)))
    IN  IF r.raised THEN r
        ELSE IF resp.kind = "exception" \/ is_error_response(resp)
             THEN Outcome(r.initialized, r.base, TRUE, sent, <<>>)
             ELSE Outcome(r.initialized, form, FALSE, sent, parse_results(resp))

\* The report control perform_drillthrough addresses.
DrillTarget == <<"ReportViewer1$ctl13$ReportControl$ctl00">>

\* The form with the two button markers left in.
drill_form_keeps_buttons(base, drill_id) ==
    Put(Put(base, "__EVENTTARGET", DrillTarget), "__EVENTARGUMENT", <<"Drillthrough$", drill_id>>)
\* The form perform_drillthrough posts.
drill_form(base, drill_id) ==
    Del(Del(Put(Put(base, "__EVENTTARGET", DrillTarget),
                "__EVENTARGUMENT", <<"Drillthrough$", drill_id>>),
            "Button3"), "Button1")

\* The baseline taken from the detail page, as search_by_lastname does.
base_after_drill_updated(base, form) == form
\* _base_form_data after the drillthrough postback: _update_state is not called.
base_after_drill(base, form) == base

\* A detail document is the sequence of the pieces of its text: the literal
\* "mailto:", an address (a string the pattern [\w\.-]+@[\w\.-]+\.\w+ matches
\* as a whole), or "text" (anything with neither in it).
Addresses == {"a@b.ca", "c@d.ca"}
DocItems == {"mailto:", "text"} \cup Addresses

\* The first address of the document, wherever it stands.
mailto_match_first_address(doc) ==
    {k \in 1..Len(doc) : doc[k] \in Addresses /\ \A m \in 1..(k - 1) : doc[m] \notin Addresses}
\* re.search(r'mailto:([\w\.-]+@[\w\.-]+\.\w+)', html): the positions of the
\* address captured, i.e. of the first address that directly follows "mailto:".
mailto_match(doc) ==
    LET hits == {k \in 2..Len(doc) : doc[k - 1] = "mailto:" /\ doc[k] \in Addresses}
    IN  {k \in hits : \A m \in hits : k <= m}

\* re.findall(r'[\w\.-]+@[\w\.-]+\.\w+', html)
findall_emails(doc) == SelectSeq(doc, LAMBDA x : x \in Addresses)

\* The email part of perform_drillthrough; "none" is None.
extract_email(doc) ==
    LET email_match == mailto_match(doc)
        emails == findall_emails(doc)
    IN  IF email_match # {} THEN doc[CHOOSE k \in email_match : TRUE]
        ELSE IF emails # <<>> THEN emails[1] ELSE "none"

\* What the drillthrough postback can come back with: the request raises, or
\* a page with its document, the phone its text formats to and its inputs.
DetailPage(doc, phone, form) ==
    [kind |-> "page", doc |-> doc, phone |-> phone, inputs |-> form]
DrillRaises == [kind |-> "exception", doc |-> <<>>, phone |-> "none", inputs |-> EmptyForm]
\* contact_info as perform_drillthrough returns it.
contact_info(page) == <<"dict", extract_email(page.doc), page.phone>>

\* RECAHttpScraper.perform_drillthrough.
perform_drillthrough(init, base, drill_id, io, dresp) ==
    LET r == ensure_initialized(init, base, io)
        sent == Append(r.sent, Req("drill_post", r.initialized, drill_form(r.base, drill_id)))
    IN  IF r.raised THEN r
        ELSE IF dresp.kind = "exception"
             THEN Outcome(r.initialized, r.base, TRUE, sent, <<>>)
             ELSE Outcome(r.initialized, base_after_drill(r.base, dresp.inputs), FALSE,
                          sent, contact_info(dresp))

\* ------------------------------------------------------- error signatures
\* A page text is the sequence of its characters.
UpperLetters ==
    <<"A", "B", "C", "D", "E", "F", "G", "H", "I", "J", "K", "L", "M">> \o
    <<"N", "O", "P", "Q", "R", "S", "T", "U", "V", "W", "X", "Y", "Z">>
LowerLetters ==
    <<"a", "b", "c", "d", "e", "f", "g", "h", "i", "j", "k", "l", "m">> \o
    <<"n", "o", "p", "q", "r", "s", "t", "u", "v", "w", "x", "y", "z">>
\* str.lower() on one character and on a text.
lower_char(c) ==
    IF \E k \in 1..26 : UpperLetters[k] = c
    THEN LowerLetters[CHOOSE k \in 1..26 : UpperLetters[k] = c]
    ELSE c
lower(text) == [k \in 1..Len(text) |-> lower_char(text[k])]
\* "ind in html_lower"
contains(text, ind) ==
    \E p \in 1..(Len(text) - Len(ind) + 1) : SubSeq(text, p, p + Len(ind) - 1) = ind
error_indicators ==
    << <<"r", "u", "n", "t", "i", "m", "e", " ", "e", "r", "r", "o", "r">>,
       <<"s", "e", "r", "v", "e", "r", " ", "e", "r", "r", "o", "r", " ", "i", "n", " ", "'", "/", "'", " ", "a", "p", "p", "l", "i", "c", "a", "t", "i", "o", "n">>,
       <<"i", "n", "v", "a", "l", "i", "d", " ", "p", "o", "s", "t", "b", "a", "c", "k">>,
       <<"e", "v", "e", "n", "t", " ", "v", "a", "l", "i", "d", "a", "t", "i", "o", "n">>,
       <<"t", "o", "o", " ", "m", "a", "n", "y", " ", "r", "e", "q", "u", "e", "s", "t", "s">>,
       <<"c", "a", "p", "t", "c", "h", "a">>,
       <<"b", "l", "o", "c", "k", "e", "d">> >>
\* The text searched as it came.
html_lower_as_is(html) == html
\* "html_lower = html.lower()"
html_lower(html) == lower(html)
\* RECAHttpScraper._is_error_response on the text of a page.
is_error_html(html) ==
    \E k \in 1..Len(error_indicators) : contains(html_lower(html), error_indicators[k])

\* ------------------------------------------------------------ QueueManager
\* Python values a job is made of: a string, a bool, None, a dict (its
\* items in order, each a key and a value).
Str(text) == <<"str", text>>
Bool(b) == <<"bool", b>>
Null == <<"null">>
Dict(items) == <<"dict", items>>

\* json.dumps: the text as the sequence of its tokens.
RECURSIVE dumps(_)
RECURSIVE dumps_items(_)
dumps_items(items) ==
    IF items = <<>> THEN <<>>
    ELSE (IF Len(items) > 1 THEN dumps_items(SubSeq(items, 1, Len(items) - 1)) \o << <<",">> >>
          ELSE <<>>)
         \o << <<"string", items[Len(items)][1]>>, <<":">> >> \o dumps(items[Len(items)][2])
dumps(value) ==
    IF value[1] = "str" THEN << <<"string", value[2]>> >>
    ELSE IF value[1] = "bool" THEN << <<IF value[2] THEN "true" ELSE "false">> >>
    ELSE IF value[1] = "null" THEN << <<"null">> >>
    ELSE << <<"{">> >> \o dumps_items(value[2]) \o << <<"}">> >>

\* json.loads: the value the text starts with and the tokens after it.
RECURSIVE parse_value(_)
RECURSIVE parse_items(_, _)
parse_items(tokens, items) ==
    LET item == parse_value(SubSeq(tokens, 3, Len(tokens)))
        read == Append(items, <<tokens[1][2], item.value>>)
    IN  IF item.rest[1] = <<",">> THEN parse_items(Tail(item.rest), read)
        ELSE [value |-> Dict(read), rest |-> Tail(item.rest)]
parse_value(tokens) ==
    LET token == tokens[1]
    IN  IF token[1] = "string" THEN [value |-> Str(token[2]), rest |-> Tail(tokens)]
        ELSE IF token[1] \in {"true", "false"}
             THEN [value |-> Bool(token[1] = "true"), rest |-> Tail(tokens)]
        ELSE IF token[1] = "null" THEN [value |-> Null, rest |-> Tail(tokens)]
        ELSE IF tokens[2] = <<"}">> THEN [value |-> Dict(<<>>), rest |-> Tail(Tail(tokens))]
        ELSE parse_items(Tail(tokens), <<>>)
loads(text) == parse_value(text).value

\* job_data.get(key, ''): the value of the last item with the key.
get(job_data, key, default) ==
    LET at == {k \in 1..Len(job_data[2]) : job_data[2][k][1] = key}
    IN  IF at = {} THEN default
        ELSE job_data[2][CHOOSE k \in at : \A m \in at : m <= k][2]

\* The job put in front of the waiting ones.
rpush_at_head(list, job_json) == <<job_json>> \o list
\* redis_client.rpush(queue_name, job_json)
rpush(list, job_json) == Append(list, job_json)

\* QueueManager.enqueue that returns: the list after it and the job id.
enqueue(list, job_data) ==
    [list |-> rpush(list, dumps(job_data)), job_id |-> get(job_data, "job_id", Str(""))]
\* QueueManager.dequeue on a list that is not empty: blpop takes its head.
dequeue(list) == [list |-> Tail(list), job |-> loads(Head(list))]

\* ----------------------------------------------------------- checkpoint
\* CheckpointManager.state (the timestamps are not modelled).
EmptyState ==
    [completed_prefixes |-> <<>>, failed_prefixes |-> <<>>, total_agents_found |-> 0,
     phase |-> "surface", deep_completed_ids |-> <<>>]
\* mark_prefix_done with the list assigned instead of appended to.
mark_prefix_done_overwrite(st, prefix, count) ==
    [st EXCEPT !.completed_prefixes = <<prefix>>,
               !.total_agents_found = @ + count]
mark_prefix_done(st, prefix, count) ==
    [st EXCEPT !.completed_prefixes = Append(@, prefix),
               !.total_agents_found = @ + count]
\* mark_prefix_failed appending to the wrong list.
mark_prefix_failed_as_done(st, prefix) ==
    [st EXCEPT !.completed_prefixes = Append(@, prefix)]
mark_prefix_failed(st, prefix) ==
    [st EXCEPT !.failed_prefixes = Append(@, prefix)]
is_prefix_done(st, prefix) == prefix \in Range(st.completed_prefixes)
append_deep_done(st, drill_id) ==
    [st EXCEPT !.deep_completed_ids = Append(@, drill_id)]
is_deep_done(st, drill_id) == drill_id \in Range(st.deep_completed_ids)

\* Files on disk.
Absent == [kind |-> "absent", data |-> <<>>]
Truncated == [kind |-> "truncated", data |-> <<>>]
Complete(d) == [kind |-> "complete", data |-> <<d>>]
Content(f) == f.data[1]

\* ---------------------------------------------------------------- state
VARIABLES
    \* disk: sweep_checkpoint.json, all_agents.json, all_agents_deep.json
    ckptFile, resultsFile, deepFile,
    \* command line: --letters (fixed over the restarts), number of starts so
    \* far; the site: the field sets its pages carry
    letters, runs, served,
    \* the process: position, CheckpointManager.state, all_agents (the list the
    \* deep phase goes on to mutate), prefixes, the loop index i of the surface
    \* loop, the loop index j of the deep loop, attempt of search_with_retry,
    \* its return value, scraper._initialized, scraper._base_form_data, --deep,
    \* where save() returns to
    pc, state, all_agents, prefixes, i, j, attempt, results, initialized, base_form_data,
    deep, ret,
    \* history: prefixes handed to search_with_retry in this run, outcomes of
    \* the attempts of the current call, prefixes done when the run started,
    \* prefixes whose mark_prefix_done has completed, what each call returned,
    \* keys of the rows each prefix was marked done with, prefixes marked after
    \* a page without the landmark, whether save() raised, the last drillthrough
    handed, tries, doneAtStart, marked, outcomes, got, drift, saveFailed, lastDrill,
    \* whether a sleep has elapsed since the last outbound request, and whether
    \* a request ever went out without one
    pace,
    \* history of the session driven on its own: its last call, the baseline as
    \* the last initialisation or search left it with the drillthroughs since
    lastCall, since,
    \* a function applied on its own: its argument and what it returned
    pure,
    \* the service: the Redis list behind QueueManager, the scrape requests
    \* RECAScraperAgent is handling, the task the event loop is running, and
    \* the history of the queue and of the agent's scraper
    redis_list, tasks, running, journal,
    \* the cloud scrape service, a RateLimiter and the scraper worker
    cloud, limiter, worker

disk == <<ckptFile, resultsFile, deepFile>>
input == <<letters, runs, served>>
proc == <<pc, state, all_agents, prefixes, i, j, attempt, results, initialized,
          base_form_data, deep, ret>>
service == <<redis_list, tasks, running, journal, cloud, limiter, worker>>
study == <<lastCall, since, pure, service>>
hist == <<handed, tries, doneAtStart, marked, outcomes, got, drift, saveFailed, lastDrill,
          study>>
vars == <<disk, input, proc, hist, pace>>
\* What the session driven on its own, or a function applied on its own,
\* leaves alone: the files, the command line and the sweep.
sweepState ==
    <<disk, input, pc, state, all_agents, prefixes, i, j, attempt, results, deep, ret,
      handed, tries, doneAtStart, marked, outcomes, got, drift, saveFailed, lastDrill>>

LetterLists ==
    {NoLetters} \cup UNION {[1..n -> LetterChoices] : n \in 1..MaxLetters}
AllPrefixes ==
    {<<l>> : l \in Range(ascii_uppercase)} \cup
    {<<l, s>> : l \in Range(ascii_uppercase), s \in Range(ascii_lowercase)}

None == [none |-> TRUE, list |-> <<>>]
Some(l) == [none |-> FALSE, list |-> l]
NoDrill == [id |-> "", failed |-> FALSE, attempts |-> 0, failedIds |-> {}]

\* ---------------------------------------------------------------- phone
\* The text the phone patterns are searched in: a sequence of characters.
Digits == {"0", "1", "2", "3", "4", "5", "6", "7", "8", "9"}
\* The elements of a pattern: one character of a set, a captured group of n
\* digits "(\d{n})", or "\s*".
One(set) == [t |-> "one", set |-> set, n |-> 1]
Group(n) == [t |-> "digits", set |-> Digits, n |-> n]
Spaces == [t |-> "spaces", set |-> {" "}, n |-> 0]
\* phone_patterns, in the order of the list.
phone_patterns ==
    << <<One({"("}), Group(3), One({")"}), Spaces, Group(3), One({"-", "."}), Spaces, Group(4)>>,
       <<Group(3), One({"-", "."}), Spaces, Group(3), One({"-", "."}), Spaces, Group(4)>>,
       <<Group(3), One({" ", "."}), Group(3), One({" ", "."}), Group(4)>>,
       <<Group(10)>> >>

NoMatch == [ok |-> FALSE, groups |-> <<>>]
\* The pattern from its k-th element on matched at position pos.  "\s*" takes
\* every space there is: the element after it is never a space, so a shorter
\* run cannot match where the longest does not.
RECURSIVE match_from(_, _, _, _, _)
match_from(pattern, k, text, pos, groups) ==
    IF k > Len(pattern) THEN [ok |-> TRUE, groups |-> groups]
    ELSE LET e == pattern[k]
             last == pos + e.n - 1
             run == {n \in 0..(Len(text) - pos + 1) :
                        \A m \in pos..(pos + n - 1) : text[m] \in e.set}
             longest == CHOOSE n \in run : \A m \in run : m <= n
         IN  IF e.t = "spaces"
             THEN match_from(pattern, k + 1, text, pos + longest, groups)
             ELSE IF last <= Len(text) /\ \A m \in pos..last : text[m] \in e.set
                  THEN match_from(pattern, k + 1, text, last + 1,
                                  IF e.t = "digits"
                                  THEN Append(groups, SubSeq(text, pos, last))
                                  ELSE groups)
                  ELSE NoMatch

\* re.search(pattern, html): the match that starts leftmost.
re_search(pattern, text) ==
    LET starts == {p \in 1..Len(text) : match_from(pattern, 1, text, p, <<>>).ok}
    IN  IF starts = {} THEN NoMatch
        ELSE match_from(pattern, 1, text, CHOOSE p \in starts : \A q \in starts : p <= q, <<>>)

\* The digits as they were matched, with no punctuation put in.
format_phone_bare(groups) == Some(Flatten(groups))
\* contact_info["phone"] for the groups of the match; None when neither
\* branch of the if applies.
format_phone(groups) ==
    IF Len(groups) = 3
    THEN Some(<<"(">> \o groups[1] \o <<")", " ">> \o groups[2] \o <<"-">> \o groups[3])
    ELSE IF Len(groups) = 1 /\ Len(groups[1]) = 10
         THEN LET num == groups[1]
              IN  Some(<<"(">> \o SubSeq(num, 1, 3) \o <<")", " ">> \o SubSeq(num, 4, 6)
                       \o <<"-">> \o SubSeq(num, 7, 10))
         ELSE None

\* The loop over phone_patterns: the first pattern that matches decides.
RECURSIVE phone_from(_, _)
phone_from(k, text) ==
    IF k > Len(phone_patterns) THEN None
    ELSE LET phone_match == re_search(phone_patterns[k], text)
         IN  IF phone_match.ok THEN format_phone(phone_match.groups)
             ELSE phone_from(k + 1, text)
extract_phone(text) == phone_from(1, text)

Stopped == pc \in {"start", "done", "raised", "crashed"}

\* Pacing: nothing sent yet; then n requests sent in a row; then a sleep.
NoPace == [gap |-> "first", unpaced |-> FALSE]
after_requests(p, n) ==
    IF n = 0 THEN p
    ELSE [gap |-> "sent", unpaced |-> p.unpaced \/ p.gap = "sent" \/ n > 1]
after_sleep(p) == [p EXCEPT !.gap = "slept"]

NoCall ==
    [op |-> "none", arg |-> <<>>, entryInit |-> FALSE, baseBefore |-> EmptyForm,
     baseline |-> EmptyForm,
     io |-> NoInitOutcome, raised |-> FALSE, sent |-> <<>>,
     value |-> <<>>, drills |-> 0, doc |-> <<>>, resp |-> "none", page |-> EmptyForm]
NoSince == [baseline |-> EmptyForm, drills |-> 0]
NoPure == [fn |-> "none"]
\* The service before anything is asked of it.
NoCloud == [on |-> FALSE]
NoLimiter == [on |-> FALSE]
NoWorker == [on |-> FALSE]
NoJournal == [enqueued |-> <<>>, dequeued |-> <<>>, last |-> <<"none">>, ops |-> <<>>]
ServiceIdle ==
    /\ redis_list = <<>> /\ tasks = <<>> /\ running = 0 /\ journal = NoJournal
    /\ cloud = NoCloud /\ limiter = NoLimiter /\ worker = NoWorker

\* Before the program is started: no files, a fresh process.
Idle ==
    /\ ckptFile = Absent /\ resultsFile = Absent /\ deepFile = Absent
    /\ letters \in LetterLists /\ runs = 0
    /\ pc = "start" /\ state = EmptyState /\ all_agents = <<>> /\ prefixes = <<>>
    /\ i = 1 /\ j = 1 /\ attempt = 0 /\ results = None
    /\ initialized = FALSE /\ base_form_data = EmptyForm
    /\ deep = FALSE /\ ret = "none"
    /\ handed = <<>> /\ tries = <<>> /\ doneAtStart = {} /\ marked = {}
    /\ outcomes = <<>> /\ got = [p \in AllPrefixes |-> {}] /\ drift = {}
    /\ saveFailed = FALSE /\ lastDrill = NoDrill /\ pace = NoPace

\* The sweep against a site whose pages carry one field set.
Init ==
    /\ Idle /\ served = {Form1}
    /\ lastCall = NoCall /\ since = NoSince /\ ServiceIdle /\ pure = NoPure

\* ------------------------------------------------------------------ main
\* main() up to the surface loop: CheckpointManager(), load() under --resume,
\* RECAHttpScraper(), generate_prefixes, and the head of run_surface_sweep
\* (all_agents read back from RESULTS_FILE when it exists).  json.load raises
\* on a truncated file.
Main(resume, deepFlag) ==
    /\ Stopped /\ runs < MaxRuns
    /\ runs' = runs + 1
    /\ LET loadRaises == resume /\ ckptFile.kind = "truncated"
           st == IF resume /\ ckptFile.kind = "complete" THEN Content(ckptFile)
                 ELSE EmptyState
           readRaises == resultsFile.kind = "truncated"
       IN  /\ state' = IF loadRaises THEN EmptyState ELSE st
           /\ pc' = IF loadRaises \/ readRaises THEN "raised" ELSE "loop"
           /\ all_agents' = IF ~loadRaises /\ resultsFile.kind = "complete"
                            THEN Content(resultsFile) ELSE <<>>
           /\ doneAtStart' = IF loadRaises THEN {} ELSE Range(st.completed_prefixes)
           /\ marked' = IF resume THEN marked ELSE {}
    /\ prefixes' = generate_prefixes(letters)
    /\ i' = 1 /\ j' = 1 /\ attempt' = 0 /\ results' = None
    /\ initialized' = FALSE /\ base_form_data' = EmptyForm
    /\ deep' = deepFlag /\ ret' = "none"
    /\ handed' = <<>> /\ tries' = <<>> /\ outcomes' = <<>> /\ drift' = {}
    /\ saveFailed' = FALSE /\ lastDrill' = NoDrill /\ pace' = NoPace
    /\ UNCHANGED <<disk, letters, served, got, study>>

\* The process is killed: memory is lost, the files stay as they are.
Crash ==
    /\ ~Stopped
    /\ pc' = "crashed" /\ state' = EmptyState /\ all_agents' = <<>> /\ prefixes' = <<>>
    /\ i' = 1 /\ j' = 1 /\ attempt' = 0 /\ results' = None
    /\ initialized' = FALSE /\ base_form_data' = EmptyForm
    /\ deep' = FALSE /\ ret' = "none"
    /\ handed' = <<>> /\ tries' = <<>> /\ doneAtStart' = {} /\ outcomes' = <<>> /\ drift' = {}
    /\ saveFailed' = FALSE /\ lastDrill' = NoDrill /\ pace' = NoPace
    /\ UNCHANGED <<disk, input, marked, got, study>>

\* ------------------------------------------------- CheckpointManager.save
\* open(path, "w") truncates the file; json.dump then writes it.
SaveOpen ==
    /\ pc = "save_open"
    /\ ckptFile' = Truncated /\ pc' = "save_write"
    /\ UNCHANGED <<resultsFile, deepFile, input, state, all_agents, prefixes, i, j,
                   attempt, results, initialized, base_form_data, deep, ret, hist, pace>>

\* What the caller resumes with once save() has returned.
AfterSave(r) == r

SaveWrite ==
    /\ pc = "save_write"
    /\ ckptFile' = Complete(state) /\ pc' = AfterSave(ret)
    /\ marked' = IF ret = "after_done" THEN marked \cup {prefixes[i]} ELSE marked
    /\ UNCHANGED <<resultsFile, deepFile, input, state, all_agents, prefixes, i, j,
                   attempt, results, initialized, base_form_data, deep, ret,
                   handed, tries, doneAtStart, outcomes, got, study, drift, saveFailed,
                   lastDrill, pace>>

\* save()'s exception absorbed by the caller like a per-unit failure.
SaveRaisedTo_absorbed(r) == r

\* Where an exception raised by save() lands: no caller catches it, so it
\* leaves run_surface_sweep / run_deep_scrape and main.
SaveRaisedTo(r) == "raised"

\* save() raises (mkdir or open fails: file untouched; the write fails: file
\* left truncated).
SaveRaises ==
    /\ pc \in {"save_open", "save_write"}
    /\ saveFailed' = TRUE /\ pc' = SaveRaisedTo(ret)
    /\ UNCHANGED <<disk, input, state, all_agents, prefixes, i, j,
                   attempt, results, initialized, base_form_data, deep, ret,
                   handed, tries, doneAtStart, marked, outcomes, got, study, drift,
                   lastDrill, pace>>

\* ------------------------------------------------------- search_with_retry
\* The except block without the re-initialisation.
reinit_never(init, base, att, io) == Outcome(init, base, FALSE, <<>>, <<>>)
\* The except block of search_with_retry after the sleep: from the third
\* attempt on, _initialized is cleared and _fetch_initial_state is run with
\* its exception swallowed.
reinit_after_failure(init, base, att, io) ==
    IF att >= ReinitFrom THEN fetch_initial_state(FALSE, base, io)
    ELSE Outcome(init, base, FALSE, <<>>, <<>>)

\* The loop bound off by one.
has_next_attempt_extra(att) == att <= MAX_RETRIES

\* Whether the loop "for attempt in range(1, max_retries + 1)" has another turn.
has_next_attempt(att) == att < MAX_RETRIES

\* One turn of the loop in which search_by_lastname raises (the
\* initialisation it runs first raises, the post raises, or the page carries
\* an error signature), with the except block: the backoff sleep and, from
\* the third attempt on, the re-initialisation.
SearchAttemptFails ==
    /\ pc = "attempt"
    /\ \E io \in InitOutcomesIf(needs_init(initialized), served),
          form \in served, reio \in InitOutcomesIf(attempt >= ReinitFrom, served) :
       \E resp \in AnswersAfter(io, Responses) :
       \E r \in {search_by_lastname(initialized, base_form_data, prefixes[i], io, resp, form)} :
       \E re \in {reinit_after_failure(r.initialized, r.base, attempt, reio)} :
             /\ r.raised
             /\ initialized' = re.initialized /\ base_form_data' = re.base
             /\ pace' = after_requests(after_sleep(after_requests(pace, Len(r.sent))),
                                       Len(re.sent))
             /\ tries' = Append(tries, "fail")
             /\ IF has_next_attempt(attempt)
                THEN /\ attempt' = attempt + 1 /\ pc' = "attempt"
                     /\ UNCHANGED <<results, outcomes>>
                ELSE /\ attempt' = attempt /\ pc' = "returned" /\ results' = None
                     /\ outcomes' = Append(outcomes, [prefix |-> prefixes[i], res |-> None])
    /\ UNCHANGED <<disk, input, state, all_agents, prefixes, i, j, deep, ret,
                   handed, doneAtStart, marked, got, study, drift, saveFailed, lastDrill>>

\* One turn in which search_by_lastname returns: the session is initialised
\* (now or before), the page is no error page, and _parse_results gives the
\* rows, or [] when the landmark is missing.
SearchAttemptOk ==
    /\ pc = "attempt"
    /\ \E io \in InitOutcomesIf(needs_init(initialized), served), form \in served :
       \E resp \in AnswersAfter(io, Responses) :
       \E r \in {search_by_lastname(initialized, base_form_data, prefixes[i], io, resp, form)} :
             /\ ~r.raised
             /\ initialized' = r.initialized /\ base_form_data' = r.base
             /\ pace' = after_requests(pace, Len(r.sent))
             /\ results' = Some(r.value)
             /\ outcomes' = Append(outcomes, [prefix |-> prefixes[i], res |-> Some(r.value)])
             /\ drift' = IF resp.kind = "nolandmark" THEN drift \cup {prefixes[i]}
                         ELSE drift \ {prefixes[i]}
    /\ tries' = Append(tries, "ok")
    /\ pc' = "returned"
    /\ UNCHANGED <<disk, input, state, all_agents, prefixes, i, j, attempt, deep, ret,
                   handed, doneAtStart, marked, got, study, saveFailed, lastDrill>>

\* ------------------------------------------------------- run_surface_sweep
\* "if checkpoint.is_prefix_done(prefix): continue"
SkipDone ==
    /\ pc = "loop" /\ i <= Len(prefixes)
    /\ is_prefix_done(state, prefixes[i])
    /\ i' = i + 1
    /\ UNCHANGED <<disk, input, pc, state, all_agents, prefixes, j, attempt, results,
                   initialized, base_form_data, deep, ret, hist, pace>>

\* "results = search_with_retry(scraper, prefix)": the call is entered.
CallSearch ==
    /\ pc = "loop" /\ i <= Len(prefixes)
    /\ ~is_prefix_done(state, prefixes[i])
    /\ handed' = Append(handed, prefixes[i])
    /\ tries' = <<>> /\ attempt' = 1 /\ pc' = "attempt"
    /\ UNCHANGED <<disk, input, state, all_agents, prefixes, i, j, results,
                   initialized, base_form_data, deep, ret,
                   doneAtStart, marked, outcomes, got, study, drift, saveFailed, lastDrill,
                   pace>>

\* "if results is None: checkpoint.mark_prefix_failed(prefix)", up to its save().
MarkFailed ==
    /\ pc = "returned" /\ results.none
    /\ state' = mark_prefix_failed(state, prefixes[i])
    /\ pc' = "save_open" /\ ret' = "after_failed"
    /\ UNCHANGED <<disk, input, all_agents, prefixes, i, j, attempt, results,
                   initialized, base_form_data, deep, hist, pace>>

\* "all_agents.extend(results); checkpoint.mark_prefix_done(prefix, count)",
\* up to its save().
MarkDone ==
    /\ pc = "returned" /\ ~results.none
    /\ all_agents' = all_agents \o results.list
    /\ state' = mark_prefix_done(state, prefixes[i], Len(results.list))
    /\ got' = [got EXCEPT ![prefixes[i]] = KeysOf(results.list)]
    /\ pc' = "save_open" /\ ret' = "after_done"
    /\ UNCHANGED <<disk, input, prefixes, i, j, attempt, results, initialized,
                   base_form_data, deep,
                   handed, tries, doneAtStart, marked, outcomes, drift, saveFailed,
                   lastDrill, study, pace>>

\* "continue" after mark_prefix_failed.
NextAfterFailed ==
    /\ pc = "after_failed"
    /\ i' = i + 1 /\ pc' = "loop"
    /\ UNCHANGED <<disk, input, state, all_agents, prefixes, j, attempt, results,
                   initialized, base_form_data, deep, ret, hist, pace>>

\* Whether the periodic flush is due at loop index idx ("if i % 26 == 0").
flush_due(idx) == idx % FlushEvery = 0

\* No flush at this index: sleep and go on to the next prefix.
NextAfterDone ==
    /\ pc = "after_done" /\ ~flush_due(i)
    /\ i' = i + 1 /\ pc' = "loop"
    /\ pace' = after_sleep(pace)
    /\ UNCHANGED <<disk, input, state, all_agents, prefixes, j, attempt, results,
                   initialized, base_form_data, deep, ret, hist>>

\* Periodic flush: deduplicate, then save_json opens RESULTS_FILE with "w".
FlushOpen ==
    /\ pc = "after_done" /\ flush_due(i)
    /\ all_agents' = deduplicate_agents(all_agents)
    /\ resultsFile' = Truncated /\ pc' = "flush_write"
    /\ UNCHANGED <<ckptFile, deepFile, input, state, prefixes, i, j, attempt, results,
                   initialized, base_form_data, deep, ret, hist, pace>>

\* json.dump of the periodic flush, then the sleep and the next prefix.
FlushWrite ==
    /\ pc = "flush_write"
    /\ resultsFile' = Complete(all_agents)
    /\ i' = i + 1 /\ pc' = "loop"
    /\ pace' = after_sleep(pace)
    /\ UNCHANGED <<ckptFile, deepFile, input, state, all_agents, prefixes, j, attempt,
                   results, initialized, base_form_data, deep, ret, hist>>

\* After the loop: final deduplicate, save_json opens RESULTS_FILE.
FinalOpen ==
    /\ pc = "loop" /\ i > Len(prefixes)
    /\ all_agents' = deduplicate_agents(all_agents)
    /\ resultsFile' = Truncated /\ pc' = "final_write"
    /\ UNCHANGED <<ckptFile, deepFile, input, state, prefixes, i, j, attempt, results,
                   initialized, base_form_data, deep, ret, hist, pace>>

\* json.dump of the final save; run_surface_sweep returns all_agents.  (The
\* CSV export written next is read by nothing in the program and is left out.)
FinalWrite ==
    /\ pc = "final_write"
    /\ resultsFile' = Complete(all_agents) /\ pc' = "surface_done"
    /\ UNCHANGED <<ckptFile, deepFile, input, state, all_agents, prefixes, i, j, attempt,
                   results, initialized, base_form_data, deep, ret, hist, pace>>

\* --------------------------------------------------------- run_deep_scrape
\* Detail pages the sweep meets: one with a mailto link, one without an address.
DetailPages(forms) ==
    {DetailPage(doc, "none", f) : doc \in {<<"mailto:", "a@b.ca">>, <<"text">>}, f \in forms}

\* History of the drillthrough calls: how many in a row were made for the
\* record with this drill_id, whether the last one raised, and the ids of
\* the records whose drillthrough has raised in this run.
DrillCalled(last, id, raised) ==
    [id |-> id, failed |-> raised,
     attempts |-> IF last.id = id THEN last.attempts + 1 ELSE 1,
     failedIds |-> IF raised THEN last.failedIds \cup {id} ELSE last.failedIds]

\* Whether mark_deep_done saves ("len(deep_completed_ids) % 10 == 0").
deep_save_due(st) == Len(st.deep_completed_ids) % DeepSaveEvery = 0
\* Whether the deep results are flushed at loop index idx ("if i % 50 == 0").
deep_flush_due(idx) == idx % DeepFlushEvery = 0

\* main(), without --deep: the run is over after the surface sweep.
Finish ==
    /\ pc = "surface_done" /\ ~deep
    /\ pc' = "done"
    /\ UNCHANGED <<disk, input, state, all_agents, prefixes, i, j, attempt, results,
                   initialized, base_form_data, deep, ret, hist, pace>>

\* Head of run_deep_scrape: phase = "deep", checkpoint.save().
DeepBegin ==
    /\ pc = "surface_done" /\ deep
    /\ state' = [state EXCEPT !.phase = "deep"]
    /\ j' = 1 /\ pc' = "save_open" /\ ret' = "deep_loop"
    /\ UNCHANGED <<disk, input, all_agents, prefixes, i, attempt, results,
                   initialized, base_form_data, deep, hist, pace>>

\* "if not drill_id: continue"
DeepSkipNoId ==
    /\ pc = "deep_loop" /\ j <= Len(all_agents)
    /\ all_agents[j].drill_id = ""
    /\ j' = j + 1
    /\ UNCHANGED <<disk, input, pc, state, all_agents, prefixes, i, attempt, results,
                   initialized, base_form_data, deep, ret, hist, pace>>

\* "if checkpoint.is_deep_done(drill_id): continue"
DeepSkipDone ==
    /\ pc = "deep_loop" /\ j <= Len(all_agents)
    /\ all_agents[j].drill_id # ""
    /\ is_deep_done(state, all_agents[j].drill_id)
    /\ j' = j + 1
    /\ UNCHANGED <<disk, input, pc, state, all_agents, prefixes, i, attempt, results,
                   initialized, base_form_data, deep, ret, hist, pace>>

Pending ==
    /\ pc = "deep_loop" /\ j <= Len(all_agents)
    /\ all_agents[j].drill_id # ""
    /\ ~is_deep_done(state, all_agents[j].drill_id)

\* mark_deep_done and what follows it: the id is appended and the checkpoint
\* saved when the save is due.
AfterDrill(st) ==
    /\ state' = st
    /\ IF deep_save_due(st)
       THEN pc' = "save_open" /\ ret' = "deep_after"
       ELSE pc' = "deep_after" /\ ret' = ret

\* perform_drillthrough returns contact_info: a dict, which is truthy, so
\* agent["email"] is set to it; then mark_deep_done.
DrillOk ==
    /\ Pending
    /\ \E io \in InitOutcomesIf(needs_init(initialized), served),
          page \in DetailPages(served) :
       \E r \in {perform_drillthrough(initialized, base_form_data, all_agents[j].drill_id,
                                     io, page)} :
             /\ ~r.raised
             /\ all_agents' = [all_agents EXCEPT ![j].email = r.value]
             /\ initialized' = r.initialized /\ base_form_data' = r.base
             /\ pace' = after_requests(pace, Len(r.sent))
    /\ lastDrill' = DrillCalled(lastDrill, all_agents[j].drill_id, FALSE)
    /\ AfterDrill(append_deep_done(state, all_agents[j].drill_id))
    /\ UNCHANGED <<disk, input, prefixes, i, j, attempt, results, deep,
                   handed, tries, doneAtStart, marked, outcomes, got, study, drift, saveFailed>>

\* A failed record left as it was.
email_after_failure_unset(agent) == agent.email
\* agent["email"] = "" in the except block.
email_after_failure(agent) == <<"str", "">>

\* perform_drillthrough raises (its initialisation or its post): email = "",
\* _initialized cleared, _fetch_initial_state run with its exception
\* swallowed; then mark_deep_done all the same.
DrillFails ==
    /\ Pending
    /\ \E io \in InitOutcomesIf(needs_init(initialized), served),
          reio \in InitOutcomes(served) :
       \E r \in {perform_drillthrough(initialized, base_form_data, all_agents[j].drill_id,
                                     io, DrillRaises)} :
       \E re \in {fetch_initial_state(FALSE, r.base, reio)} :
             /\ r.raised
             /\ initialized' = re.initialized /\ base_form_data' = re.base
             /\ pace' = after_requests(after_requests(pace, Len(r.sent)), Len(re.sent))
    /\ all_agents' = [all_agents EXCEPT ![j].email = email_after_failure(all_agents[j])]
    /\ lastDrill' = DrillCalled(lastDrill, all_agents[j].drill_id, TRUE)
    /\ AfterDrill(append_deep_done(state, all_agents[j].drill_id))
    /\ UNCHANGED <<disk, input, prefixes, i, j, attempt, results, deep,
                   handed, tries, doneAtStart, marked, outcomes, got, study, drift, saveFailed>>

\* No flush at this index: sleep and go on to the next record.
DeepAdvance ==
    /\ pc = "deep_after" /\ ~deep_flush_due(j)
    /\ j' = j + 1 /\ pc' = "deep_loop"
    /\ pace' = after_sleep(pace)
    /\ UNCHANGED <<disk, input, state, all_agents, prefixes, i, attempt, results,
                   initialized, base_form_data, deep, ret, hist>>

\* Periodic save_json(agents, DEEP_RESULTS_FILE): open with "w".
DeepFlushOpen ==
    /\ pc = "deep_after" /\ deep_flush_due(j)
    /\ deepFile' = Truncated /\ pc' = "deep_flush_write"
    /\ UNCHANGED <<ckptFile, resultsFile, input, state, all_agents, prefixes, i, j,
                   attempt, results, initialized, base_form_data, deep, ret, hist, pace>>

DeepFlushWrite ==
    /\ pc = "deep_flush_write"
    /\ deepFile' = Complete(all_agents)
    /\ j' = j + 1 /\ pc' = "deep_loop"
    /\ pace' = after_sleep(pace)
    /\ UNCHANGED <<ckptFile, resultsFile, input, state, all_agents, prefixes, i,
                   attempt, results, initialized, base_form_data, deep, ret, hist>>

\* After the loop: final save_json(agents, DEEP_RESULTS_FILE).
DeepFinalOpen ==
    /\ pc = "deep_loop" /\ j > Len(all_agents)
    /\ deepFile' = Truncated /\ pc' = "deep_final_write"
    /\ UNCHANGED <<ckptFile, resultsFile, input, state, all_agents, prefixes, i, j,
                   attempt, results, initialized, base_form_data, deep, ret, hist, pace>>

DeepFinalWrite ==
    /\ pc = "deep_final_write"
    /\ deepFile' = Complete(all_agents) /\ pc' = "done"
    /\ UNCHANGED <<ckptFile, resultsFile, input, state, all_agents, prefixes, i, j,
                   attempt, results, initialized, base_form_data, deep, ret, hist, pace>>

\* ------------------------------------------------- the session on its own
\* Most drillthroughs made in a row on an initialised session.
MaxDrills == 2

\* Prefixes handed to search_by_lastname: one of each length.
Lastnames == {<<"A">>, <<"A", "a">>}
\* Drill ids handed to perform_drillthrough; an id may hold a "$".
DrillIds == {"d1", "ABC$XYZ"}

\* The record of one call of a session method: its argument, the session it
\* found, what the site did to its initialisation, and its outcome; doc is
\* the detail document a drillthrough was answered with, resp what came back
\* to a search postback that was sent and page the fields of a page that
\* search_by_lastname read.
Called(op, arg, init, io, r) ==
    [op |-> op, arg |-> arg, entryInit |-> init, baseBefore |-> base_form_data,
     baseline |-> since.baseline, io |-> io, raised |-> r.raised, sent |-> r.sent,
     value |-> r.value, drills |-> since.drills, doc |-> <<>>, resp |-> "none",
     page |-> EmptyForm]

\* The session after the call, and the pacing after its requests.
SessionBecomes(r) ==
    /\ initialized' = r.initialized /\ base_form_data' = r.base
    /\ pace' = after_requests(pace, Len(r.sent))

\* "scraper._initialized = False; scraper._fetch_initial_state()" with the
\* exception swallowed, as search_with_retry and run_deep_scrape do; on a new
\* session this is the worker's first initialisation.
SessReinit ==
    /\ pc = "start"
    /\ \E io \in InitOutcomes(served) :
         LET r == fetch_initial_state(FALSE, base_form_data, io)
         IN  /\ SessionBecomes(r)
             /\ lastCall' = Called("init", <<>>, FALSE, io, r)
             /\ since' = IF r.raised THEN since ELSE [baseline |-> r.base, drills |-> 0]
    /\ UNCHANGED <<sweepState, pure, service>>

\* search_by_lastname called on the session as it is.
SessSearch ==
    /\ pc = "start"
    /\ \E lastname \in Lastnames, io \in InitOutcomes(served), resp \in Responses,
          form \in served :
         LET r == search_by_lastname(initialized, base_form_data, lastname, io, resp, form)
         IN  /\ SessionBecomes(r)
             /\ lastCall' =
                  [Called("search", lastname, initialized, io, r) EXCEPT
                     !.resp = IF init_raises(io) /\ needs_init(initialized)
                              THEN "notsent" ELSE resp.kind,
                     !.page = IF r.raised THEN EmptyForm ELSE form]
             /\ since' = IF r.base = base_form_data /\ r.raised THEN since
                         ELSE [baseline |-> r.base, drills |-> 0]
    /\ UNCHANGED <<sweepState, pure, service>>

\* perform_drillthrough called on the session as it is.
SessDrill ==
    /\ pc = "start" /\ since.drills < MaxDrills
    /\ \E drill_id \in DrillIds, io \in InitOutcomes(served),
          dresp \in DetailPages(served) \cup {DrillRaises} :
         LET r == perform_drillthrough(initialized, base_form_data, drill_id, io, dresp)
         IN  /\ SessionBecomes(r)
             /\ lastCall' = [Called("drill", drill_id, initialized, io, r)
                               EXCEPT !.doc = dresp.doc]
             /\ since' = IF initialized THEN [since EXCEPT !.drills = @ + 1]
                         ELSE IF r.initialized THEN [baseline |-> io.page, drills |-> 0]
                         ELSE since
    /\ UNCHANGED <<sweepState, pure, service>>

\* ------------------------------------------------ functions on their own
\* Longest record list handed to deduplicate_agents.
MaxList == 3
\* Longest detail document, in pieces.
MaxDocLen == 4

\* Records for deduplicate_agents: two with one drill_id, one with another,
\* and without a drill_id: two alike in the three names, one differing in
\* each name, and two whose names differ but have a "|" in them.
DedupPool ==
    {R1, R4, R2, R3, [R3 EXCEPT !.email = <<"str", "">>],
     Agent("", <<"Di">>, <<"Abel">>, <<"X">>),
     Agent("", <<"Cy">>, <<"Hill">>, <<"X">>),
     Agent("", <<"Cy">>, <<"Abel">>, <<"Y">>),
     Agent("", <<"Cy">>, <<"Abel", "|", "Hill">>, <<"X">>),
     Agent("", <<"Cy">>, <<"Abel">>, <<"Hill", "|", "X">>)}
SeqsUpTo(S, n) == UNION {[1..m -> S] : m \in 0..n}

DedupInit ==
    /\ Idle /\ letters = NoLetters /\ served = {Form1}
    /\ lastCall = NoCall /\ since = NoSince /\ ServiceIdle
    /\ \E agents \in SeqsUpTo(DedupPool, MaxList) :
         pure = [fn |-> "deduplicate_agents", arg |-> agents, applied |-> FALSE,
                 out |-> <<>>, twice |-> FALSE, again |-> <<>>,
                 other |-> <<>>, otherOut |-> <<>>]

\* deduplicate_agents(agents)
DedupApply ==
    /\ pure.fn = "deduplicate_agents" /\ ~pure.applied
    /\ pure' = [pure EXCEPT !.applied = TRUE, !.out = deduplicate_agents(pure.arg)]
    /\ UNCHANGED <<sweepState, initialized, base_form_data, pace, lastCall, since,
                   service>>

\* deduplicate_agents applied to its own output, as the final flush of
\* run_surface_sweep does after a periodic one.
DedupAgain ==
    /\ pure.fn = "deduplicate_agents" /\ pure.applied /\ ~pure.twice
    /\ pure' = [pure EXCEPT !.twice = TRUE, !.again = deduplicate_agents(pure.out)]
    /\ UNCHANGED <<sweepState, initialized, base_form_data, pace, lastCall, since,
                   service>>

\* deduplicate_agents applied to the same records in another order.
DedupPermuted ==
    /\ pure.fn = "deduplicate_agents" /\ pure.applied /\ pure.other = <<>>
    /\ \E f \in Permutations(1..Len(pure.arg)) :
         LET other == [k \in 1..Len(pure.arg) |-> pure.arg[f[k]]]
         IN  /\ other # <<>>
             /\ pure' = [pure EXCEPT !.other = other, !.otherOut = deduplicate_agents(other)]
    /\ UNCHANGED <<sweepState, initialized, base_form_data, pace, lastCall, since,
                   service>>

DedupNext == DedupApply \/ DedupAgain \/ DedupPermuted

DedupSpec == DedupInit /\ [][DedupNext]_vars

ExtractInit ==
    /\ Idle /\ letters = NoLetters /\ served = {Form1}
    /\ lastCall = NoCall /\ since = NoSince /\ ServiceIdle
    /\ \E doc \in SeqsUpTo(DocItems, MaxDocLen) :
         pure = [fn |-> "extract_email", arg |-> doc, applied |-> FALSE, out |-> "none"]

\* The email part of perform_drillthrough applied to the document.
ExtractApply ==
    /\ pure.fn = "extract_email" /\ ~pure.applied
    /\ pure' = [pure EXCEPT !.applied = TRUE, !.out = extract_email(pure.arg)]
    /\ UNCHANGED <<sweepState, initialized, base_form_data, pace, lastCall, since,
                   service>>

ExtractNext == ExtractApply

ExtractSpec == ExtractInit /\ [][ExtractNext]_vars

\* Most pieces a text handed to the phone patterns is put together from.
MaxPieces == 5
\* The pieces: an area code in parentheses and bare, an exchange, a line
\* number, a single digit and three separators; pieces with nothing between
\* them make one run of digits.
PhonePieces ==
    { <<"(", "4", "0", "3", ")">>, <<"4", "0", "3">>, <<"5", "5", "5">>,
      <<"1", "2", "3", "4">>, <<"9">>, <<" ">>, <<"-">>, <<".">> }

PhoneInit ==
    /\ Idle /\ letters = NoLetters /\ served = {Form1}
    /\ lastCall = NoCall /\ since = NoSince /\ ServiceIdle
    /\ \E pieces \in SeqsUpTo(PhonePieces, MaxPieces) :
         pure = [fn |-> "extract_phone", arg |-> Flatten(pieces), applied |-> FALSE,
                 out |-> None]

\* The phone part of perform_drillthrough applied to the text.
PhoneApply ==
    /\ pure.fn = "extract_phone" /\ ~pure.applied
    /\ pure' = [pure EXCEPT !.applied = TRUE, !.out = extract_phone(pure.arg)]
    /\ UNCHANGED <<sweepState, initialized, base_form_data, pace, lastCall, since,
                   service>>

PhoneNext == PhoneApply

PhoneSpec == PhoneInit /\ [][PhoneNext]_vars

\* Most pieces a page text handed to _is_error_response is put together from.
MaxWords == 3
\* The pieces: the words of the signatures in several letter cases, a word
\* with a signature inside it, and the landmark of a results page.
PagePieces ==
    { <<"R", "u", "n", "t", "i", "m", "e">>,
      <<"r", "u", "n", "t", "i", "m", "e">>,
      <<" ">>,
      <<"E", "r", "r", "o", "r">>,
      <<"e", "r", "r", "o", "r">>,
      <<"S", "e", "r", "v", "e", "r">>,
      <<"E", "r", "r", "o", "r", " ", "i", "n", " ", "'", "/", "'", " ", "A", "p", "p", "l", "i", "c", "a", "t", "i", "o", "n">>,
      <<"C", "A", "P", "T", "C", "H", "A">>,
      <<"u", "n", "b", "l", "o", "c", "k", "e", "d">>,
      <<"T", "o", "o", " ", "M", "a", "n", "y", " ", "R", "e", "q", "u", "e", "s", "t", "s">>,
      <<"I", "n", "v", "a", "l", "i", "d", " ", "p", "o", "s", "t", "b", "a", "c", "k">>,
      <<"E", "V", "E", "N", "T", " ", "V", "A", "L", "I", "D", "A", "T", "I", "O", "N">>,
      <<"L", "i", "c", "e", "n", "c", "e", " ", "H", "i", "s", "t", "o", "r", "y">> }

ErrorInit ==
    /\ Idle /\ letters = NoLetters /\ served = {Form1}
    /\ lastCall = NoCall /\ since = NoSince /\ ServiceIdle
    /\ \E pieces \in SeqsUpTo(PagePieces, MaxWords) :
         pure = [fn |-> "is_error_response", arg |-> Flatten(pieces), applied |-> FALSE,
                 out |-> FALSE]

\* _is_error_response(html)
ErrorApply ==
    /\ pure.fn = "is_error_response" /\ ~pure.applied
    /\ pure' = [pure EXCEPT !.applied = TRUE, !.out = is_error_html(pure.arg)]
    /\ UNCHANGED <<sweepState, initialized, base_form_data, pace, lastCall, since,
                   service>>

ErrorNext == ErrorApply

ErrorSpec == ErrorInit /\ [][ErrorNext]_vars

\* ---------------------------------------------------- the queue on its own
\* Most jobs enqueued.
MaxJobs == 3
\* Jobs: one with a job_id, the one RECAScraperAgent enqueues (no job_id,
\* dicts within dicts), an empty one and one with a None in it.
Jobs ==
    { Dict(<< <<"job_id", Str("123")>>, <<"type", Str("test")>> >>),
      Dict(<< <<"type", Str("scrape_request")>>,
              <<"payload", Dict(<< <<"search_params", Dict(<< <<"last_name", Str("Abel")>> >>)>>,
                                   <<"async", Bool(TRUE)>> >>)>>,
              <<"session_id", Str("s1")>> >>),
      Dict(<<>>),
      Dict(<< <<"job_id", Null>>, <<"payload", Dict(<<>>)>>, <<"retry", Bool(FALSE)>> >>) }

\* enqueue(job_data) returns.
Enqueue ==
    /\ Len(journal.enqueued) < MaxJobs
    /\ \E job_data \in Jobs :
         LET r == enqueue(redis_list, job_data)
         IN  /\ redis_list' = r.list
             /\ journal' = [journal EXCEPT !.enqueued = Append(@, job_data),
                                           !.last = <<"enqueue", r.job_id>>]
    /\ UNCHANGED <<sweepState, initialized, base_form_data, pace, lastCall, since, pure,
                   tasks, running,
                   cloud, limiter, worker>>

\* enqueue raises: rpush has failed and the list is as it was.
EnqueueRaises ==
    /\ Len(journal.enqueued) < MaxJobs
    /\ journal' = [journal EXCEPT !.last = <<"enqueue raised">>]
    /\ UNCHANGED <<sweepState, initialized, base_form_data, pace, lastCall, since, pure,
                   redis_list, tasks, running,
                   cloud, limiter, worker>>

\* dequeue() with a job waiting.
Dequeue ==
    /\ redis_list # <<>>
    /\ LET r == dequeue(redis_list)
       IN  /\ redis_list' = r.list
           /\ journal' = [journal EXCEPT !.dequeued = Append(@, r.job),
                                         !.last = <<"dequeue", r.job>>]
    /\ UNCHANGED <<sweepState, initialized, base_form_data, pace, lastCall, since, pure,
                   tasks, running,
                   cloud, limiter, worker>>

\* dequeue(timeout) with no job waiting: blpop returns None at the timeout.
DequeueEmpty ==
    /\ redis_list = <<>>
    /\ journal' = [journal EXCEPT !.last = <<"dequeue", Null>>]
    /\ UNCHANGED <<sweepState, initialized, base_form_data, pace, lastCall, since, pure,
                   redis_list, tasks, running,
                   cloud, limiter, worker>>

QueueInit ==
    /\ Idle /\ letters = NoLetters /\ served = {Form1}
    /\ lastCall = NoCall /\ since = NoSince /\ ServiceIdle /\ pure = NoPure

QueueNext == Enqueue \/ EnqueueRaises \/ Dequeue \/ DequeueEmpty

QueueSpec == QueueInit /\ [][QueueNext]_vars

\* ---------------------------------------------------- the agent on its own
\* Most scrape requests RECAScraperAgent is given.
MaxTasks == 2

\* message.payload: search_params.last_name (None: not there; the empty
\* string; a name), "async" and "deep_scrape".
Request(last_name, async, deep_scrape) ==
    [last_name |-> last_name, async |-> async, deep_scrape |-> deep_scrape]
Requests ==
    { Request(None, FALSE, FALSE), Request(Some(<<>>), TRUE, TRUE),
      Request(Some(<<"A">>), TRUE, FALSE), Request(Some(<<"A">>), FALSE, FALSE),
      Request(Some(<<"A">>), FALSE, TRUE) }
\* What the site answers a search of the agent with: the request raises, or
\* a page with two rows with drill ids, or a page with one row without; and
\* a drillthrough: the request raises, or a detail page with a mailto link.
AgentResponses ==
    { [kind |-> "exception", rows |-> <<>>], [kind |-> "results", rows |-> <<R1, R2>>],
      [kind |-> "results", rows |-> <<R3>>] }
AgentDetails == {DrillRaises} \cup {DetailPage(<<"mailto:", "a@b.ca">>, "none", f) : f \in served}
\* The job _handle_scrape_request enqueues for the request.
AgentJob(req) ==
    Dict(<< <<"type", Str("scrape_request")>>,
            <<"payload", Dict(<< <<"search_params",
                                   Dict(<< <<"last_name", Str(req.last_name.list)>> >>)>>,
                                 <<"async", Bool(req.async)>>,
                                 <<"deep_scrape", Bool(req.deep_scrape)>> >>)>>,
            <<"session_id", Str("s1")>> >>)

\* "if not last_name"
no_last_name(req) == req.last_name.none \/ req.last_name.list = <<>>
\* The async flag ignored.
use_async_never(req) == FALSE
\* use_async = message.payload.get("async", False)
use_async(req) == req.async

\* A request handed to process_message: the coroutine is there, not yet run.
NewTask(req) ==
    [req |-> req, pc |-> "ready", results |-> <<>>, k |-> 0, reply |-> <<"none">>,
     enqueues |-> 0, searches |-> 0, returned |-> <<"none">>]
Replied(task, reply) == [task EXCEPT !.pc = "done", !.reply = reply]
ScraperCalled(t, op) == [journal EXCEPT !.ops = Append(@, [task |-> t, op |-> op])]

\* process_message(message) is called.
Receive ==
    /\ running = 0 /\ Len(tasks) < MaxTasks
    /\ \E req \in Requests : tasks' = Append(tasks, NewTask(req))
    /\ UNCHANGED <<sweepState, initialized, base_form_data, pace, lastCall, since, pure,
                   redis_list, running, journal,
                   cloud, limiter, worker>>

\* No last_name: the error reply.
HandleMissing ==
    \E t \in 1..Len(tasks) :
      /\ running = 0 /\ tasks[t].pc = "ready"
      /\ no_last_name(tasks[t].req)
      /\ tasks' = [tasks EXCEPT ![t] = Replied(@, <<"ERROR_OCCURRED">>)]
      /\ UNCHANGED <<sweepState, initialized, base_form_data, pace, lastCall, since, pure,
                     redis_list, running, journal,
                   cloud, limiter, worker>>

\* The async path with enqueue returning: JOB_QUEUED with its job id.
HandleAsync ==
    \E t \in 1..Len(tasks) :
      /\ running = 0 /\ tasks[t].pc = "ready"
      /\ ~no_last_name(tasks[t].req) /\ use_async(tasks[t].req)
      /\ LET r == enqueue(redis_list, AgentJob(tasks[t].req))
         IN  /\ redis_list' = r.list
             /\ tasks' = [tasks EXCEPT ![t] = [Replied(@, <<"JOB_QUEUED", r.job_id>>)
                                                 EXCEPT !.enqueues = @ + 1,
                                                        !.returned = <<"job_id", r.job_id>>]]
      /\ UNCHANGED <<sweepState, initialized, base_form_data, pace, lastCall, since, pure,
                     running, journal,
                   cloud, limiter, worker>>

\* The async path with enqueue raising: the error reply.
HandleAsyncRaises ==
    \E t \in 1..Len(tasks) :
      /\ running = 0 /\ tasks[t].pc = "ready"
      /\ ~no_last_name(tasks[t].req) /\ use_async(tasks[t].req)
      /\ tasks' = [tasks EXCEPT ![t] = [Replied(@, <<"ERROR_OCCURRED">>)
                                          EXCEPT !.enqueues = @ + 1,
                                                 !.returned = <<"raised">>]]
      /\ UNCHANGED <<sweepState, initialized, base_form_data, pace, lastCall, since, pure,
                     redis_list, running, journal,
                   cloud, limiter, worker>>

\* The sync path up to its first await or its return: search_by_lastname
\* raises (error reply), returns without deep_scrape (SCRAPE_COMPLETED), or
\* returns and _perform_deep_scrape is entered.
HandleSync ==
    \E t \in 1..Len(tasks) :
      /\ running = 0 /\ tasks[t].pc = "ready"
      /\ ~no_last_name(tasks[t].req) /\ ~use_async(tasks[t].req)
      /\ \E io \in InitOutcomesIf(needs_init(initialized), served), form \in served :
         \E resp \in AnswersAfter(io, AgentResponses) :
         \E r \in {search_by_lastname(initialized, base_form_data, tasks[t].req.last_name.list,
                                      io, resp, form)} :
           /\ initialized' = r.initialized /\ base_form_data' = r.base
           /\ journal' = ScraperCalled(t, "search")
           /\ IF r.raised
              THEN /\ tasks' = [tasks EXCEPT ![t] = [Replied(@, <<"ERROR_OCCURRED">>)
                                                      EXCEPT !.searches = @ + 1]]
                   /\ running' = 0
              ELSE IF ~tasks[t].req.deep_scrape
              THEN /\ tasks' = [tasks EXCEPT ![t] = [Replied(@, <<"SCRAPE_COMPLETED", r.value>>)
                                                      EXCEPT !.searches = @ + 1]]
                   /\ running' = 0
              ELSE /\ tasks' = [tasks EXCEPT ![t] = [@ EXCEPT !.pc = "deep", !.k = 1,
                                                               !.results = r.value,
                                                               !.searches = @ + 1]]
                   /\ running' = t
      /\ UNCHANGED <<sweepState, pace, lastCall, since, pure, redis_list,
                   cloud, limiter, worker>>

\* One turn of the loop of _perform_deep_scrape for a record with a drill
\* id, up to "await asyncio.sleep(1.0)": the drillthrough returns (the dict
\* is truthy, so it is stored) or raises (logged).
DeepDrill ==
    \E t \in 1..Len(tasks) :
      /\ running = t /\ tasks[t].pc = "deep" /\ tasks[t].k <= Len(tasks[t].results)
      /\ tasks[t].results[tasks[t].k].drill_id # ""
      /\ \E io \in InitOutcomesIf(needs_init(initialized), served) :
         \E page \in AnswersAfter(io, AgentDetails) :
         \E r \in {perform_drillthrough(initialized, base_form_data,
                                        tasks[t].results[tasks[t].k].drill_id, io, page)} :
           /\ initialized' = r.initialized /\ base_form_data' = r.base
           /\ tasks' = [tasks EXCEPT ![t] =
                           [@ EXCEPT !.pc = "sleep",
                                     !.results[tasks[t].k].email =
                                         IF r.raised THEN @ ELSE r.value]]
      /\ journal' = ScraperCalled(t, "drill")
      /\ running' = 0
      /\ UNCHANGED <<sweepState, pace, lastCall, since, pure, redis_list,
                   cloud, limiter, worker>>

\* The turn for a record without a drill id: only the sleep.
DeepNoDrill ==
    \E t \in 1..Len(tasks) :
      /\ running = t /\ tasks[t].pc = "deep" /\ tasks[t].k <= Len(tasks[t].results)
      /\ tasks[t].results[tasks[t].k].drill_id = ""
      /\ tasks' = [tasks EXCEPT ![t].pc = "sleep"]
      /\ running' = 0
      /\ UNCHANGED <<sweepState, initialized, base_form_data, pace, lastCall, since, pure,
                     redis_list, journal,
                   cloud, limiter, worker>>

\* The sleep is over and the event loop resumes the coroutine.
DeepWake ==
    \E t \in 1..Len(tasks) :
      /\ running = 0 /\ tasks[t].pc = "sleep"
      /\ tasks' = [tasks EXCEPT ![t] = [@ EXCEPT !.pc = "deep", !.k = @ + 1]]
      /\ running' = t
      /\ UNCHANGED <<sweepState, initialized, base_form_data, pace, lastCall, since, pure,
                     redis_list, journal,
                   cloud, limiter, worker>>

\* The loop is over: SCRAPE_COMPLETED with the records.
DeepReturn ==
    \E t \in 1..Len(tasks) :
      /\ running = t /\ tasks[t].pc = "deep" /\ tasks[t].k > Len(tasks[t].results)
      /\ tasks' = [tasks EXCEPT ![t] = Replied(@, <<"SCRAPE_COMPLETED", tasks[t].results>>)]
      /\ running' = 0
      /\ UNCHANGED <<sweepState, initialized, base_form_data, pace, lastCall, since, pure,
                     redis_list, journal,
                   cloud, limiter, worker>>

AgentInit ==
    /\ Idle /\ letters = NoLetters /\ served = {Form1}
    /\ lastCall = NoCall /\ since = NoSince /\ ServiceIdle /\ pure = NoPure

AgentNext ==
    \/ Receive
    \/ HandleMissing \/ HandleAsync \/ HandleAsyncRaises \/ HandleSync
    \/ DeepDrill \/ DeepNoDrill \/ DeepWake \/ DeepReturn

AgentSpec == AgentInit /\ [][AgentNext]_vars

\* ------------------------------------------------------------ specification
\* The steps of run_surface_sweep and of main without --deep.
SurfaceSteps ==
    \/ SaveOpen \/ SaveWrite \/ SaveRaises
    \/ SkipDone \/ CallSearch \/ SearchAttemptFails \/ SearchAttemptOk
    \/ MarkFailed \/ MarkDone \/ NextAfterFailed \/ NextAfterDone
    \/ FlushOpen \/ FlushWrite \/ FinalOpen \/ FinalWrite
    \/ Finish

\* The surface sweep (main without --deep), killed and restarted.
Next ==
    \/ \E resume \in BOOLEAN : Main(resume, FALSE)
    \/ Crash
    \/ SurfaceSteps

Spec == Init /\ [][Next]_vars

\* The first run of the surface sweep, on empty files, left to run to its end.
FirstRunNext ==
    \/ \E resume \in BOOLEAN : runs = 0 /\ Main(resume, FALSE)
    \/ SurfaceSteps

FirstRunSpec == Init /\ [][FirstRunNext]_vars

\* The surface sweep for one letter, killed and restarted.
OneLetterInit == Init /\ letters = <<"a">>

ResumeSpec == OneLetterInit /\ [][Next]_vars

\* The steps of run_deep_scrape that a run can take whatever it started from.
DeepSteps ==
    \/ DeepBegin \/ DeepSkipNoId \/ DrillOk \/ DrillFails
    \/ DeepAdvance \/ DeepFlushOpen \/ DeepFlushWrite \/ DeepFinalOpen \/ DeepFinalWrite

\* The whole program (main with or without --deep), for one letter, killed
\* and restarted.
DeepNext ==
    \/ \E resume \in BOOLEAN, deepFlag \in BOOLEAN : Main(resume, deepFlag)
    \/ Crash
    \/ SurfaceSteps
    \/ DeepSteps \/ DeepSkipDone

DeepSpec == OneLetterInit /\ [][DeepNext]_vars

\* The first run of the whole program, on empty files, left to run to its
\* end.  No drill_id is deep-done before its own turn in such a run (the
\* checkpoint starts empty and all_agents is deduplicated), so DeepSkipDone
\* has no part in it.
RepeatedLetterInit == Init /\ letters \in {<<"a">>, <<"a", "A">>}

DeepFirstRunNext ==
    \/ \E resume \in BOOLEAN, deepFlag \in BOOLEAN : runs = 0 /\ Main(resume, deepFlag)
    \/ SurfaceSteps
    \/ DeepSteps

DeepFirstRunSpec == RepeatedLetterInit /\ [][DeepFirstRunNext]_vars

\* One session whose methods are called in any order, against a site whose
\* pages carry either field set.
SessionInit ==
    /\ Idle /\ letters = NoLetters /\ served = Forms
    /\ lastCall = NoCall /\ since = NoSince /\ ServiceIdle /\ pure = NoPure

SessionNext == SessReinit \/ SessSearch \/ SessDrill

SessionSpec == SessionInit /\ [][SessionNext]_vars

\* ------------------------------------------- search_with_retry on its own
\* BASE_DELAY, MAX_DELAY and JITTER_RANGE in seconds.
BASE_DELAY == 2
MAX_DELAY == 60
JITTER_RANGE == 1
\* Time is counted in ticks: this many to the second.
TicksPerSecond == 1
\* What random.uniform(0, JITTER_RANGE) can return, in ticks.
Jitters == 0..(JITTER_RANGE * TicksPerSecond)
Min(a, b) == IF a <= b THEN a ELSE b

\* The delay without the cap.
backoff_delay_uncapped(attempt_no, jitter) ==
    BASE_DELAY * TicksPerSecond * (2 ^ attempt_no) + jitter
\* "delay = min(BASE_DELAY * (2 ** attempt) + random.uniform(0, JITTER_RANGE),
\* MAX_DELAY)", in ticks.
backoff_delay(attempt_no, jitter) ==
    Min(BASE_DELAY * TicksPerSecond * (2 ^ attempt_no) + jitter, MAX_DELAY * TicksPerSecond)

\* The texts of the pages the site answers a search postback with: a page
\* with the invalid-postback signature, one with the rate-limit signature,
\* and a results page.
InvalidPostbackPage ==
    <<"I", "n", "v", "a", "l", "i", "d", " ", "p", "o", "s", "t", "b", "a", "c", "k">>
TooManyRequestsPage ==
    <<"T", "o", "o", " ", "M", "a", "n", "y", " ", "R", "e", "q", "u", "e", "s", "t", "s">>
ResultsPage ==
    <<"L", "i", "c", "e", "n", "c", "e", " ", "H", "i", "s", "t", "o", "r", "y">>
RetryAnswers ==
    {[kind |-> "exception", rows |-> <<>>, text |-> <<>>]} \cup
    {[kind |-> "page", rows |-> <<>>, text |-> t] :
        t \in {InvalidPostbackPage, TooManyRequestsPage, ResultsPage}}
\* The answer as search_by_lastname sees it: _is_error_response on its text,
\* then _parse_results, which looks for the "Licence History" landmark.
response_of(answer) ==
    IF answer.kind # "page" THEN [kind |-> answer.kind, rows |-> <<>>]
    ELSE IF is_error_html(answer.text) THEN [kind |-> "error", rows |-> <<>>]
    ELSE IF contains(answer.text, ResultsPage) THEN [kind |-> "results", rows |-> <<R1>>]
    ELSE [kind |-> "nolandmark", rows |-> <<>>]

\* The record of one turn of the loop: its attempt number, what made
\* search_by_lastname raise ("init": its initialisation; "exception": the
\* postback; "page": the text of the page), whether it ran the
\* initialisation, the delay slept and what became of the re-initialisation
\* in the except block.  The log keeps the last two turns of the call.
Turn(attempt_no, cause, text, handshake, delay, reinit) ==
    [attempt |-> attempt_no, cause |-> cause, text |-> text, handshake |-> handshake,
     delay |-> delay, reinit |-> reinit]
Logged(log, turn) == IF log = <<>> THEN <<turn>> ELSE <<log[Len(log)], turn>>
cause_of(r, answer) ==
    IF answer.kind = "notsent" THEN "init" ELSE answer.kind
reinit_result(attempt_no, re) ==
    IF attempt_no < ReinitFrom THEN "none" ELSE IF re.raised THEN "failed" ELSE "ok"

\* search_with_retry(scraper, prefix) is called, on the session as the calls
\* before left it.
RetryCall ==
    /\ pc \in {"start", "returned"} /\ pure.fn = "search_with_retry"
    /\ pc' = "attempt" /\ attempt' = 1 /\ tries' = <<>>
    /\ pure' = [pure EXCEPT !.log = <<>>]
    /\ UNCHANGED <<disk, input, state, all_agents, prefixes, i, j, results, initialized,
                   base_form_data, deep, ret, handed, doneAtStart, marked, outcomes, got,
                   drift, saveFailed, lastDrill, lastCall, since, service, pace>>

\* One turn of the loop in which search_by_lastname raises, with the except
\* block: the delay, the sleep and, from the third attempt on, the
\* re-initialisation.
RetryFails ==
    /\ pc = "attempt" /\ pure.fn = "search_with_retry"
    /\ \E io \in InitOutcomesIf(needs_init(initialized), served) :
       \E answer \in AnswersAfter(io, RetryAnswers) :
       \E resp \in {response_of(answer)} :
       \E form \in served :
       \E r \in {search_by_lastname(initialized, base_form_data, pure.prefix, io,
                                    resp, form)} :
       \E reio \in InitOutcomesIf(attempt >= ReinitFrom, served), jitter \in Jitters :
       \E re \in {reinit_after_failure(r.initialized, r.base, attempt, reio)} :
             /\ r.raised
             /\ initialized' = re.initialized /\ base_form_data' = re.base
             /\ pace' = after_requests(after_sleep(after_requests(pace, Len(r.sent))),
                                       Len(re.sent))
             /\ tries' = Append(tries, "fail")
             /\ pure' = [pure EXCEPT !.log =
                            Logged(@, Turn(attempt, cause_of(r, answer),
                                           IF answer.kind = "page" THEN answer.text ELSE <<>>,
                                           needs_init(initialized),
                                           backoff_delay(attempt, jitter),
                                           reinit_result(attempt, re)))]
             /\ IF has_next_attempt(attempt)
                THEN /\ attempt' = attempt + 1 /\ pc' = "attempt"
                     /\ UNCHANGED results
                ELSE /\ attempt' = attempt /\ pc' = "returned" /\ results' = None
    /\ UNCHANGED <<disk, input, state, all_agents, prefixes, i, j, deep, ret, handed,
                   doneAtStart, marked, outcomes, got, drift, saveFailed, lastDrill,
                   lastCall, since, service>>

\* One turn in which search_by_lastname returns.
RetryOk ==
    /\ pc = "attempt" /\ pure.fn = "search_with_retry"
    /\ \E io \in InitOutcomesIf(needs_init(initialized), served) :
       \E answer \in AnswersAfter(io, RetryAnswers) :
       \E resp \in {response_of(answer)} :
       \E form \in served :
       \E r \in {search_by_lastname(initialized, base_form_data, pure.prefix, io,
                                    resp, form)} :
             /\ ~r.raised
             /\ initialized' = r.initialized /\ base_form_data' = r.base
             /\ pace' = after_requests(pace, Len(r.sent))
             /\ results' = Some(r.value)
             /\ pure' = [pure EXCEPT !.log =
                            Logged(@, Turn(attempt, "ok", answer.text,
                                           needs_init(initialized), 0, "none"))]
    /\ tries' = Append(tries, "ok")
    /\ pc' = "returned"
    /\ UNCHANGED <<disk, input, state, all_agents, prefixes, i, j, attempt, deep, ret,
                   handed, doneAtStart, marked, outcomes, got, drift, saveFailed,
                   lastDrill, lastCall, since, service>>

RetryInit ==
    /\ Idle /\ letters = NoLetters /\ served = {Form1}
    /\ lastCall = NoCall /\ since = NoSince /\ ServiceIdle
    /\ pure = [fn |-> "search_with_retry", prefix |-> <<"A">>, log |-> <<>>]

RetryNext == RetryCall \/ RetryFails \/ RetryOk

RetrySpec == RetryInit /\ [][RetryNext]_vars

\* ------------------------------------------------- the cloud scrape service
\* Most POST requests made to the service.
MaxPosts == 3
\* Paths posted to: the three that do_POST knows and one it does not.
PostPaths == {"/scrape", "/scrape/surface", "/scrape/deep", "/status"}
\* The mode do_POST takes from the path.
mode_of(path) ==
    IF path = "/scrape" THEN "full"
    ELSE IF path = "/scrape/surface" THEN "surface"
    ELSE IF path = "/scrape/deep" THEN "deep"
    ELSE "none"

\* run_status and run_lock as the module sets them up, no request made yet.
\* A caller is one call of run_scrape_async made by do_POST, a thread one
\* run of _run.
CloudIdle ==
    [on |-> TRUE, run_status |-> [status |-> "idle", error |-> "none"],
     run_lock |-> <<"free">>, callers |-> <<>>, threads |-> <<>>, notFound |-> 0]

\* "with run_lock:" goes on when no one holds the lock.
lock_free(c) == c.run_lock = <<"free">>
\* The check left out.
already_running_never(c) == FALSE
\* 'if run_status["status"] == "running"'
already_running(c) == c.run_status.status = "running"

CallerAt(position) == {c \in 1..Len(cloud.callers) : cloud.callers[c].pc = position}
\* HTTPServer handles one request at a time: the next one is taken up when
\* do_POST has answered the one before.
ServerFree == \A c \in 1..Len(cloud.callers) : cloud.callers[c].pc = "done"
ThreadAt(position) == {t \in 1..Len(cloud.threads) : cloud.threads[t].pc = position}
Posts == Len(cloud.callers) + cloud.notFound

\* do_POST for a path it knows: run_scrape_async(mode) is called.
Post ==
    /\ cloud.on /\ Posts < MaxPosts /\ ServerFree
    /\ \E path \in PostPaths :
         /\ mode_of(path) # "none"
         /\ cloud' = [cloud EXCEPT !.callers =
                         Append(@, [pc |-> "lock", mode |-> mode_of(path),
                                    started |-> "none", reply |-> 0])]
    /\ UNCHANGED <<sweepState, initialized, base_form_data, pace, lastCall, since, pure,
                   redis_list, tasks, running, journal, limiter, worker>>

\* do_POST for any other path: 404, nothing is called.
PostNotFound ==
    /\ cloud.on /\ Posts < MaxPosts /\ ServerFree
    /\ \E path \in PostPaths :
         /\ mode_of(path) = "none"
         /\ cloud' = [cloud EXCEPT !.notFound = @ + 1]
    /\ UNCHANGED <<sweepState, initialized, base_form_data, pace, lastCall, since, pure,
                   redis_list, tasks, running, journal, limiter, worker>>

\* "with run_lock:" in run_scrape_async.
CallerLock ==
    /\ cloud.on /\ lock_free(cloud)
    /\ \E c \in CallerAt("lock") :
         cloud' = [cloud EXCEPT !.run_lock = <<"caller", c>>, !.callers[c].pc = "check"]
    /\ UNCHANGED <<sweepState, initialized, base_form_data, pace, lastCall, since, pure,
                   redis_list, tasks, running, journal, limiter, worker>>

\* 'if run_status["status"] == "running": return False', leaving the lock.
CallerRefused ==
    /\ cloud.on
    /\ \E c \in CallerAt("check") :
         /\ already_running(cloud)
         /\ cloud' = [cloud EXCEPT !.run_lock = <<"free">>,
                                   !.callers[c].pc = "reply",
                                   !.callers[c].started = "no"]
    /\ UNCHANGED <<sweepState, initialized, base_form_data, pace, lastCall, since, pure,
                   redis_list, tasks, running, journal, limiter, worker>>

\* The status was not "running": the caller goes on to set it.
CallerPasses ==
    /\ cloud.on
    /\ \E c \in CallerAt("check") :
         /\ ~already_running(cloud)
         /\ cloud' = [cloud EXCEPT !.callers[c].pc = "set"]
    /\ UNCHANGED <<sweepState, initialized, base_form_data, pace, lastCall, since, pure,
                   redis_list, tasks, running, journal, limiter, worker>>

\* 'run_status["status"] = "running"; run_status["error"] = None', leaving
\* the lock.
CallerSets ==
    /\ cloud.on
    /\ \E c \in CallerAt("set") :
         cloud' = [cloud EXCEPT !.run_status = [status |-> "running", error |-> "none"],
                                !.run_lock = <<"free">>,
                                !.callers[c].pc = "start"]
    /\ UNCHANGED <<sweepState, initialized, base_form_data, pace, lastCall, since, pure,
                   redis_list, tasks, running, journal, limiter, worker>>

\* "t = threading.Thread(target=_run, daemon=True); t.start(); return True"
CallerStarts ==
    /\ cloud.on
    /\ \E c \in CallerAt("start") :
         cloud' = [cloud EXCEPT !.callers[c].pc = "reply",
                                !.callers[c].started = "yes",
                                !.threads = Append(@, [pc |-> "run", by |-> c,
                                                       mode |-> cloud.callers[c].mode,
                                                       outcome |-> <<"none", "none">>])]
    /\ UNCHANGED <<sweepState, initialized, base_form_data, pace, lastCall, since, pure,
                   redis_list, tasks, running, journal, limiter, worker>>

\* do_POST answers 202 when run_scrape_async returned True and 409 otherwise.
Reply ==
    /\ cloud.on
    /\ \E c \in CallerAt("reply") :
         cloud' = [cloud EXCEPT !.callers[c].pc = "done",
                                !.callers[c].reply =
                                    IF cloud.callers[c].started = "yes" THEN 202 ELSE 409]
    /\ UNCHANGED <<sweepState, initialized, base_form_data, pace, lastCall, since, pure,
                   redis_list, tasks, running, journal, limiter, worker>>

\* _run: do_surface_sweep, do_deep_scrape or do_full_scrape returns its
\* result (do_deep_scrape may return one with an "error" in it).
ThreadReturns ==
    /\ cloud.on
    /\ \E t \in ThreadAt("run"), err \in {"none", "No surface results found"} :
         /\ err # "none" => cloud.threads[t].mode \in {"deep", "full"}
         /\ cloud' = [cloud EXCEPT !.threads[t].pc = "lock",
                                   !.threads[t].outcome = <<"completed", err>>]
    /\ UNCHANGED <<sweepState, initialized, base_form_data, pace, lastCall, since, pure,
                   redis_list, tasks, running, journal, limiter, worker>>

\* _run: the scrape raises and "except Exception" takes over.
ThreadRaises ==
    /\ cloud.on
    /\ \E t \in ThreadAt("run") :
         cloud' = [cloud EXCEPT !.threads[t].pc = "lock",
                                !.threads[t].outcome = <<"failed", "exception">>]
    /\ UNCHANGED <<sweepState, initialized, base_form_data, pace, lastCall, since, pure,
                   redis_list, tasks, running, journal, limiter, worker>>

\* "with run_lock:" in _run.
ThreadLock ==
    /\ cloud.on /\ lock_free(cloud)
    /\ \E t \in ThreadAt("lock") :
         cloud' = [cloud EXCEPT !.run_lock = <<"thread", t>>, !.threads[t].pc = "update"]
    /\ UNCHANGED <<sweepState, initialized, base_form_data, pace, lastCall, since, pure,
                   redis_list, tasks, running, journal, limiter, worker>>

\* "run_status.update({...})" with status "completed" or "failed", leaving
\* the lock.
ThreadUpdates ==
    /\ cloud.on
    /\ \E t \in ThreadAt("update") :
         cloud' = [cloud EXCEPT !.run_status = [status |-> cloud.threads[t].outcome[1],
                                                error |-> cloud.threads[t].outcome[2]],
                                !.run_lock = <<"free">>,
                                !.threads[t].pc = "log"]
    /\ UNCHANGED <<sweepState, initialized, base_form_data, pace, lastCall, since, pure,
                   redis_list, tasks, running, journal, limiter, worker>>

\* The log line, and the thread is over.
ThreadEnds ==
    /\ cloud.on
    /\ \E t \in ThreadAt("log") :
         cloud' = [cloud EXCEPT !.threads[t].pc = "ended"]
    /\ UNCHANGED <<sweepState, initialized, base_form_data, pace, lastCall, since, pure,
                   redis_list, tasks, running, journal, limiter, worker>>

CloudInit ==
    /\ Idle /\ letters = NoLetters /\ served = {Form1}
    /\ lastCall = NoCall /\ since = NoSince /\ pure = NoPure
    /\ redis_list = <<>> /\ tasks = <<>> /\ running = 0 /\ journal = NoJournal
    /\ cloud = CloudIdle /\ limiter = NoLimiter /\ worker = NoWorker

CloudNext ==
    \/ Post \/ PostNotFound \/ CallerLock \/ CallerRefused \/ CallerPasses \/ CallerSets
    \/ CallerStarts \/ Reply
    \/ ThreadReturns \/ ThreadRaises \/ ThreadLock \/ ThreadUpdates \/ ThreadEnds

CloudSpec == CloudInit /\ [][CloudNext]_vars

\* ------------------------------------------------------------- RateLimiter
\* Time is counted in ticks, TokenTicks of them to the time one token takes
\* to come back (period / rate_limit), up to MaxTime; tokens are counted in
\* TokenTicks-th parts of a token.  rate_limit is at most MaxRate.
TokenTicks == 2
MaxTime == 4
MaxRate == 2

\* RateLimiter(rate_limit, period) at time 0: a full bucket.
NewLimiter(rate_limit) ==
    [on |-> TRUE, rate_limit |-> rate_limit, tokens |-> rate_limit * TokenTicks,
     last_update |-> 0, now |-> 0, pc |-> <<"idle", 0>>, completed |-> <<>>]

\* "new_tokens = time_passed * (self.rate_limit / self.period);
\* self.tokens = min(self.rate_limit, self.tokens + new_tokens)"
replenished(l, time_passed) == Min(l.rate_limit * TokenTicks, l.tokens + time_passed)
\* "wait_time = (1 - self.tokens) * (self.period / self.rate_limit)", in ticks.
wait_time(tokens) == TokenTicks - tokens

\* acquire() with a token in the bucket: it is taken and the call returns.
\* The lock is free whenever no call is asleep inside it.
AcquireTakes ==
    /\ limiter.on /\ limiter.pc[1] = "idle"
    /\ \E tokens \in {replenished(limiter, limiter.now - limiter.last_update)} :
         /\ ~(tokens < TokenTicks)
         /\ limiter' = [limiter EXCEPT !.last_update = limiter.now,
                                       !.tokens = tokens - TokenTicks,
                                       !.completed = Append(@, limiter.now)]
    /\ UNCHANGED <<sweepState, initialized, base_form_data, pace, lastCall, since, pure,
                   redis_list, tasks, running, journal, cloud, worker>>

\* acquire() with less than one token: it goes to sleep, holding the lock.
AcquireWaits ==
    /\ limiter.on /\ limiter.pc[1] = "idle"
    /\ \E tokens \in {replenished(limiter, limiter.now - limiter.last_update)} :
         /\ tokens < TokenTicks
         /\ limiter' = [limiter EXCEPT !.last_update = limiter.now,
                                       !.tokens = tokens,
                                       !.pc = <<"asleep", limiter.now + wait_time(tokens)>>]
    /\ UNCHANGED <<sweepState, initialized, base_form_data, pace, lastCall, since, pure,
                   redis_list, tasks, running, journal, cloud, worker>>

\* The sleep is over (asyncio.sleep may take longer than asked):
\* "self.tokens = 0", and the call returns.
AcquireWakes ==
    /\ limiter.on /\ limiter.pc[1] = "asleep" /\ limiter.now >= limiter.pc[2]
    /\ limiter' = [limiter EXCEPT !.tokens = 0, !.pc = <<"idle", 0>>,
                                  !.completed = Append(@, limiter.now)]
    /\ UNCHANGED <<sweepState, initialized, base_form_data, pace, lastCall, since, pure,
                   redis_list, tasks, running, journal, cloud, worker>>

\* time.monotonic() moves on.
Tick ==
    /\ limiter.on /\ limiter.now < MaxTime
    /\ limiter' = [limiter EXCEPT !.now = @ + 1]
    /\ UNCHANGED <<sweepState, initialized, base_form_data, pace, lastCall, since, pure,
                   redis_list, tasks, running, journal, cloud, worker>>

LimiterInit ==
    /\ Idle /\ letters = NoLetters /\ served = {Form1}
    /\ lastCall = NoCall /\ since = NoSince /\ pure = NoPure
    /\ redis_list = <<>> /\ tasks = <<>> /\ running = 0 /\ journal = NoJournal
    /\ cloud = NoCloud /\ worker = NoWorker
    /\ \E rate_limit \in 1..MaxRate : limiter = NewLimiter(rate_limit)

LimiterNext == AcquireTakes \/ AcquireWaits \/ AcquireWakes \/ Tick

LimiterSpec == LimiterInit /\ [][LimiterNext]_vars

\* ------------------------------------------------ the scraper worker
\* "if job" and "if last_name": a dict with no items, an empty string,
\* None and False are falsy.
truthy(value) ==
    IF value[1] = "dict" THEN value[2] # <<>>
    ELSE IF value[1] = "str" THEN value[2] # <<>>
    ELSE IF value[1] = "bool" THEN value[2]
    ELSE FALSE

\* The jobs in the queue the worker is started on: the three kinds the
\* agent's job has (a name, a name with deep_scrape, an empty name), one of
\* another type and an empty one.
WorkerJobs ==
    { AgentJob(Request(Some(<<"A">>), TRUE, FALSE)),
      AgentJob(Request(Some(<<"A">>), TRUE, TRUE)),
      AgentJob(Request(Some(<<>>), TRUE, FALSE)),
      Dict(<< <<"job_id", Str("123")>>, <<"type", Str("test")>> >>),
      Dict(<<>>) }

RECURSIVE dumps_all(_)
\* The queue after each of the jobs was given to enqueue.
dumps_all(jobs) ==
    IF jobs = <<>> THEN <<>> ELSE rpush(dumps_all(SubSeq(jobs, 1, Len(jobs) - 1)),
                                        dumps(jobs[Len(jobs)]))

\* ScraperWorker(): removed and handed are the jobs dequeue has returned and
\* the jobs process_job was called with, absorbed counts the exceptions the
\* handlers of process_job have logged.
NewWorker(list) ==
    [on |-> TRUE, is_running |-> FALSE, pc |-> "start", queued |-> list,
     job |-> Null, results |-> <<>>, k |-> 0,
     removed |-> <<>>, handed |-> <<>>, absorbed |-> 0, saved |-> 0]

\* job.get("type"), payload.get("search_params", {}).get("last_name"),
\* payload.get("deep_scrape", False)
job_type(job) == get(job, "type", Null)
job_last_name(job) ==
    get(get(get(job, "payload", Dict(<<>>)), "search_params", Dict(<<>>)), "last_name", Null)
job_deep_scrape(job) == get(get(job, "payload", Dict(<<>>)), "deep_scrape", Bool(FALSE))

\* The first record from the k-th on that has a drill_id, or one past the
\* last record.
next_drill(records, k) ==
    LET at == {n \in k..Len(records) : records[n].drill_id # ""}
    IN  IF at = {} THEN Len(records) + 1 ELSE CHOOSE n \in at : \A m \in at : n <= m

\* The worker after process_job has returned: back at the head of the loop.
job_done(w) == [w EXCEPT !.pc = "loop", !.job = Null, !.results = <<>>, !.k = 0]
\* _save_results: the file is written, or the failure is logged.
job_saved(w, written) == [job_done(w) EXCEPT !.saved = IF written THEN @ + 1 ELSE @]

\* "if job:"
has_job(job) == truthy(job)

\* start() up to its loop: _fetch_initial_state returns or raises (logged).
WorkerStart ==
    /\ worker.on /\ worker.pc = "start"
    /\ \E io \in InitOutcomes(served) :
       \E r \in {fetch_initial_state(initialized, base_form_data, io)} :
         /\ initialized' = r.initialized /\ base_form_data' = r.base
    /\ worker' = [worker EXCEPT !.is_running = TRUE, !.pc = "loop"]
    /\ UNCHANGED <<sweepState, pace, lastCall, since, pure,
                   redis_list, tasks, running, journal, cloud, limiter>>

\* dequeue returns a job: process_job is called with it if it is truthy,
\* the idle sleep is entered if it is not.
WorkerDequeue ==
    /\ worker.on /\ worker.pc = "loop" /\ worker.is_running
    /\ redis_list # <<>>
    /\ \E r \in {dequeue(redis_list)} :
         /\ redis_list' = r.list
         /\ worker' = IF has_job(r.job)
                      THEN [worker EXCEPT !.pc = "job", !.job = r.job,
                                          !.removed = Append(@, r.job),
                                          !.handed = Append(@, r.job)]
                      ELSE [worker EXCEPT !.pc = "idle", !.removed = Append(@, r.job)]
    /\ UNCHANGED <<sweepState, initialized, base_form_data, pace, lastCall, since, pure,
                   tasks, running, journal, cloud, limiter>>

\* dequeue returns None after its timeout: the idle sleep is entered.
WorkerTimeout ==
    /\ worker.on /\ worker.pc = "loop" /\ worker.is_running
    /\ redis_list = <<>>
    /\ worker' = [worker EXCEPT !.pc = "idle"]
    /\ UNCHANGED <<sweepState, initialized, base_form_data, pace, lastCall, since, pure,
                   redis_list, tasks, running, journal, cloud, limiter>>

\* "await asyncio.sleep(1)" of the idle branch ends.
WorkerIdle ==
    /\ worker.on /\ worker.pc = "idle"
    /\ worker' = [worker EXCEPT !.pc = "loop"]
    /\ UNCHANGED <<sweepState, initialized, base_form_data, pace, lastCall, since, pure,
                   redis_list, tasks, running, journal, cloud, limiter>>

\* process_job for a job of another type, or without a last_name: logged.
WorkerSkips ==
    /\ worker.on /\ worker.pc = "job"
    /\ \/ job_type(worker.job) # Str("scrape_request")
       \/ ~truthy(job_last_name(worker.job))
    /\ worker' = job_done(worker)
    /\ UNCHANGED <<sweepState, initialized, base_form_data, pace, lastCall, since, pure,
                   redis_list, tasks, running, journal, cloud, limiter>>

\* process_job for a scrape request up to its first await or its return:
\* search_by_lastname raises (logged by the handler of process_job), or
\* returns and the results are saved, or returns and the first drillthrough
\* is due.
WorkerSearch ==
    /\ worker.on /\ worker.pc = "job"
    /\ job_type(worker.job) = Str("scrape_request")
    /\ truthy(job_last_name(worker.job))
    /\ \E io \in InitOutcomesIf(needs_init(initialized), served), form \in served, written \in BOOLEAN :
       \E resp \in AnswersAfter(io, AgentResponses) :
       \E r \in {search_by_lastname(initialized, base_form_data, job_last_name(worker.job)[2],
                                    io, resp, form)} :
         /\ initialized' = r.initialized /\ base_form_data' = r.base
         /\ worker' =
              IF r.raised THEN [job_done(worker) EXCEPT !.absorbed = @ + 1]
              ELSE IF ~truthy(job_deep_scrape(worker.job))
                      \/ next_drill(r.value, 1) > Len(r.value)
              THEN job_saved(worker, written)
              ELSE [worker EXCEPT !.pc = "deep", !.results = r.value,
                                  !.k = next_drill(r.value, 1)]
    /\ UNCHANGED <<sweepState, pace, lastCall, since, pure,
                   redis_list, tasks, running, journal, cloud, limiter>>

\* One turn of the deep loop up to "await asyncio.sleep(1)": the
\* drillthrough returns (the email is stored) or raises (logged by the
\* handler within the loop).
WorkerDrill ==
    /\ worker.on /\ worker.pc = "deep"
    /\ \E io \in InitOutcomesIf(needs_init(initialized), served) :
       \E page \in AnswersAfter(io, AgentDetails) :
       \E r \in {perform_drillthrough(initialized, base_form_data,
                                      worker.results[worker.k].drill_id, io, page)} :
         /\ initialized' = r.initialized /\ base_form_data' = r.base
         /\ worker' = [worker EXCEPT !.pc = "sleep",
                                     !.absorbed = IF r.raised THEN @ + 1 ELSE @,
                                     !.results[worker.k].email =
                                         IF r.raised THEN @ ELSE r.value]
    /\ UNCHANGED <<sweepState, pace, lastCall, since, pure,
                   redis_list, tasks, running, journal, cloud, limiter>>

\* The sleep of the deep loop ends: the next record with a drill_id is due,
\* or the loop is over and the results are saved.
WorkerSleeps ==
    /\ worker.on /\ worker.pc = "sleep"
    /\ \E written \in BOOLEAN :
         worker' = IF next_drill(worker.results, worker.k + 1) > Len(worker.results)
                   THEN job_saved(worker, written)
                   ELSE [worker EXCEPT !.pc = "deep",
                                       !.k = next_drill(worker.results, worker.k + 1)]
    /\ UNCHANGED <<sweepState, initialized, base_form_data, pace, lastCall, since, pure,
                   redis_list, tasks, running, journal, cloud, limiter>>

WorkerInit ==
    /\ Idle /\ letters = NoLetters /\ served = {Form1}
    /\ lastCall = NoCall /\ since = NoSince /\ pure = NoPure
    /\ tasks = <<>> /\ running = 0 /\ journal = NoJournal
    /\ cloud = NoCloud /\ limiter = NoLimiter
    /\ \E jobs \in SeqsUpTo(WorkerJobs, MaxJobs) :
         /\ redis_list = dumps_all(jobs)
         /\ worker = NewWorker(dumps_all(jobs))

WorkerNext ==
    \/ WorkerStart \/ WorkerDequeue \/ WorkerTimeout \/ WorkerIdle
    \/ WorkerSkips \/ WorkerSearch \/ WorkerDrill \/ WorkerSleeps

WorkerSpec == WorkerInit /\ [][WorkerNext]_vars

\* ------------------------------------------------------------------ claims
Count(seq, x) == Cardinality({k \in 1..Len(seq) : seq[k] = x})
Done(st) == Range(st.completed_prefixes)
Failed(st) == Range(st.failed_prefixes)
\* What the calls of search_with_retry of this run returned, by kind.
Returned(ok) == SelectSeq(outcomes, LAMBDA o : o.res.none = ~ok)
PrefixesOf(os) == [k \in 1..Len(os) |-> os[k].prefix]
RowsOf(os) == Flatten([k \in 1..Len(os) |-> os[k].res.list])
RECURSIVE SumLen(_)
SumLen(os) == IF os = <<>> THEN 0 ELSE Len(Head(os).res.list) + SumLen(Tail(os))
AllFail(t) == \A k \in 1..Len(t) : t[k] = "fail"

\* C1: once mark_prefix_done(q, n) has completed, is_prefix_done(q) holds for
\* the rest of the run and in every run resumed from the saved checkpoint (a
\* complete checkpoint file lists q); a sweep whose checkpoint marks q done at
\* its start hands q to no search and moves on to the next prefix.
C1_DoneStaysDone ==
    /\ ~Stopped => \A q \in marked : is_prefix_done(state, q)
    /\ ckptFile.kind = "complete" => \A q \in marked : is_prefix_done(Content(ckptFile), q)
    /\ \A q \in doneAtStart : Count(handed, q) = 0
    /\ pc \in {"attempt", "returned"} => prefixes[i] \notin doneAtStart

\* A resumed run that found a prefix done at its start, skipped it, and is
\* searching a later prefix.
C1_Witness ==
    /\ pc = "attempt" /\ i > 1
    /\ doneAtStart # {} /\ marked # {}
    /\ \E k \in 1..(i - 1) : prefixes[k] \in doneAtStart /\ prefixes[k] \in marked

\* C2: a first run on an empty checkpoint and an empty sink in which only
\* searches fail ends run_surface_sweep without raising, with exactly the
\* prefixes whose search returned rows in completed_prefixes, their row counts
\* summed in total_agents_found, exactly the prefixes whose search returned
\* None in failed_prefixes, and the sink holding the deduplicated rows.
C2_SweepEndState ==
    /\ (runs = 1 /\ pc = "raised") => saveFailed
    /\ (runs = 1 /\ pc = "surface_done") =>
         /\ state.completed_prefixes = PrefixesOf(Returned(TRUE))
         /\ state.total_agents_found = SumLen(Returned(TRUE))
         /\ state.failed_prefixes = PrefixesOf(Returned(FALSE))
         /\ resultsFile = Complete(deduplicate_agents(RowsOf(Returned(TRUE))))
         /\ ckptFile = Complete(state)

\* A first run that ended with a succeeded and an exhausted prefix and rows
\* that needed deduplication.
C2_Witness ==
    /\ runs = 1 /\ pc = "surface_done"
    /\ Len(state.completed_prefixes) >= 2 /\ state.failed_prefixes # <<>>
    /\ state.total_agents_found > Len(Content(resultsFile))

\* C3: when the surface sweep has ended, after any kills and restarts, the
\* result sink holds the records of every prefix the checkpoint marks done.
C3_SinkHasDoneRecords ==
    (pc = "surface_done" /\ ckptFile.kind = "complete" /\ resultsFile.kind = "complete") =>
        \A q \in Done(Content(ckptFile)) : got[q] \subseteq KeysOf(Content(resultsFile))

\* C4: whenever the process dies, the checkpoint file is a complete file (the
\* previous or the new state), never a truncated one.
C4_CheckpointNeverTruncated ==
    pc = "crashed" => ckptFile.kind # "truncated"

\* C5: once an attempt on a query has terminated, no query is both in
\* completed_prefixes and in failed_prefixes.
C5_DoneAndFailedDisjoint ==
    pc \in {"loop", "after_done", "after_failed", "surface_done"} =>
        Done(state) \cap Failed(state) = {}

\* C6: when CheckpointManager.save raises, the exception leaves
\* run_surface_sweep / run_deep_scrape: the run is over, no further query or
\* record is processed.
C6_SaveFailureIsFatal ==
    saveFailed => pc = "raised"

\* save() raised inside mark_deep_done, in the deep phase.
C6_Witness ==
    /\ saveFailed /\ pc = "raised"
    /\ state.phase = "deep" /\ state.deep_completed_ids # <<>>

\* C7: search_with_retry makes at most max_retries attempts, every attempt
\* before the last one made has failed, it returns the rows of the first
\* attempt that succeeds, and None exactly when max_retries attempts failed.
C7_SearchWithRetryBounded ==
    /\ Len(tries) <= MAX_RETRIES
    /\ pc = "attempt" => /\ attempt \in 1..MAX_RETRIES
                         /\ Len(tries) = attempt - 1 /\ AllFail(tries)
    /\ pc = "returned" =>
         /\ tries # <<>> /\ AllFail(SubSeq(tries, 1, Len(tries) - 1))
         /\ results.none <=> (Len(tries) = MAX_RETRIES /\ AllFail(tries))
         /\ ~results.none <=> tries[Len(tries)] = "ok"

\* search_with_retry has returned None after max_retries failed attempts.
C7_Witness ==
    pc = "returned" /\ results.none /\ Len(tries) = MAX_RETRIES

\* C8: within one run no prefix is handed to search_with_retry twice, and at
\* the end of the surface sweep every prefix that was not done at its start
\* has been handed to it exactly once and is in exactly one of
\* completed_prefixes and failed_prefixes.
C8_EachPendingPrefixOnce ==
    /\ \A q \in Range(handed) : Count(handed, q) = 1
    /\ pc = "surface_done" =>
          \A q \in Range(prefixes) \ doneAtStart :
              /\ Count(handed, q) = 1
              /\ (q \in Done(state)) # (q \in Failed(state))

\* C9: a query whose response was no error page but lacked the results
\* landmark is not marked done.
C9_SchemaDriftNotMarkedDone ==
    \A q \in drift : ~is_prefix_done(state, q)

\* C10: a record whose drillthrough is reported failed in the deep phase has
\* had the maximum number of attempts.
C10_DrillthroughRetried ==
    lastDrill.failed => lastDrill.attempts = MAX_RETRIES

\* C11: no outbound request of a sweep (handshake GET, handshake postback,
\* search postback, drillthrough postback) goes out on the session without a
\* pacing sleep since the request before it.
C11_RequestsPaced ==
    ~pace.unpaced

\* Requests and initialisation runs of the last call of a session method.
SentOfKind(kinds) == SelectSeq(lastCall.sent, LAMBDA q : q.kind \in kinds)
InitRuns == Len(SentOfKind({"get"}))

\* C12: every search or drillthrough postback is sent with _initialized set,
\* and a call of search_by_lastname or perform_drillthrough runs the
\* initialisation once when it finds _initialized false and not at all when
\* it finds it true.
C12_PostbackOnlyWhenInitialized ==
    /\ \A k \in 1..Len(lastCall.sent) :
          lastCall.sent[k].kind \in {"search_post", "drill_post"} => lastCall.sent[k].init
    /\ lastCall.op \in {"search", "drill"} =>
          InitRuns = IF lastCall.entryInit THEN 0 ELSE 1

\* A drillthrough on an uninitialised session that initialised it and posted,
\* after a search on an initialised one.
C12_Witness ==
    /\ lastCall.op = "drill" /\ ~lastCall.entryInit
    /\ InitRuns = 1 /\ Len(SentOfKind({"drill_post"})) = 1

\* C13: when the Button1 postback of _fetch_initial_state comes back with an
\* error signature, the call raises, _initialized stays false and
\* _base_form_data is what it was before the call.
C13_InitErrorLeavesSession ==
    (lastCall.io.post = "error" /\ Len(SentOfKind({"init_post"})) > 0) =>
        /\ lastCall.raised /\ ~initialized
        /\ base_form_data = lastCall.baseBefore

\* An initialisation rejected on a session that had a baseline from before.
C13_Witness ==
    /\ lastCall.op = "init" /\ lastCall.io.post = "error" /\ lastCall.raised
    /\ lastCall.baseBefore # EmptyForm /\ lastCall.io.page # lastCall.baseBefore

\* C14: perform_drillthrough on an initialised session leaves _base_form_data
\* as it found it, whatever comes back; and a search on an initialised
\* session posts the baseline the last initialisation or search left,
\* whatever number of drillthroughs were made since.
C14_DrillthroughKeepsBaseline ==
    /\ (lastCall.op = "drill" /\ lastCall.entryInit) =>
          base_form_data = lastCall.baseBefore
    /\ (lastCall.op = "search" /\ lastCall.entryInit) =>
          lastCall.sent = <<Req("search_post", TRUE,
                                search_form(lastCall.baseline, lastCall.arg))>>

\* A search that followed MaxDrills drillthroughs on the initialised session.
C14_Witness ==
    /\ lastCall.op = "search" /\ lastCall.entryInit /\ ~lastCall.raised
    /\ lastCall.drills = MaxDrills /\ lastCall.baseline = Form2

\* The baseline perform_drillthrough builds its postback from: the one it
\* found, or the one its own initialisation set.
DrillBaseline == IF lastCall.entryInit THEN lastCall.baseBefore ELSE lastCall.io.page
DrillFields == {"__EVENTTARGET", "__EVENTARGUMENT", "Button1", "Button3"}

\* C15: the postback of perform_drillthrough(d) has __EVENTTARGET set to the
\* report control, __EVENTARGUMENT set to "Drillthrough$" followed by d, no
\* Button1 and no Button3, and every other field of the current baseline with
\* its value, and nothing else.
C15_DrillthroughPostback ==
    \A k \in 1..Len(lastCall.sent) :
        lastCall.sent[k].kind = "drill_post" =>
            LET data == lastCall.sent[k].data
            IN  /\ DOMAIN data = (DOMAIN DrillBaseline \ {"Button1", "Button3"})
                                    \cup {"__EVENTTARGET", "__EVENTARGUMENT"}
                /\ data["__EVENTTARGET"] = DrillTarget
                /\ data["__EVENTARGUMENT"] = <<"Drillthrough$", lastCall.arg>>
                /\ \A f \in DOMAIN DrillBaseline \ DrillFields : data[f] = DrillBaseline[f]

\* A drillthrough posted from a baseline that held the two buttons and an
\* old __EVENTTARGET, for an id with a "$" in it.
C15_Witness ==
    /\ lastCall.op = "drill" /\ Len(SentOfKind({"drill_post"})) = 1
    /\ lastCall.arg = "ABC$XYZ" /\ DrillBaseline = Form2

\* C16: deduplicate_agents applied to its own output gives that output back.
C16_DedupIdempotent ==
    (pure.fn = "deduplicate_agents" /\ pure.twice) => pure.again = pure.out

\* A list with duplicates whose deduplicated form, of two records or more,
\* has been deduplicated again.
C16_Witness ==
    /\ pure.fn = "deduplicate_agents" /\ pure.twice
    /\ Len(pure.out) < Len(pure.arg) /\ Len(pure.out) >= 2

WithoutId(agents) == SelectSeq(agents, LAMBDA a : a.drill_id = "")
NamesOf(agent) == <<agent.first_name, agent.last_name, agent.brokerage>>

\* C17: the output of deduplicate_agents has no two records with the same
\* non-empty drill_id and no two records without a drill_id that agree in
\* first name, last name and brokerage, and every (first name, last name,
\* brokerage) of an input record without a drill_id is there in the output.
C17_DedupCollapsesExactly ==
    (pure.fn = "deduplicate_agents" /\ pure.applied) =>
        /\ \A m, n \in 1..Len(pure.out) :
              (m # n /\ pure.out[m].drill_id # "") =>
                  pure.out[m].drill_id # pure.out[n].drill_id
        /\ \A m, n \in 1..Len(pure.out) :
              (m # n /\ pure.out[m].drill_id = "" /\ pure.out[n].drill_id = "") =>
                  NamesOf(pure.out[m]) # NamesOf(pure.out[n])
        /\ {NamesOf(a) : a \in Range(WithoutId(pure.arg))} =
           {NamesOf(a) : a \in Range(WithoutId(pure.out))}

\* The records of a list that are the first with their key, in the list's order.
RECURSIVE FirstOccurrences(_, _)
FirstOccurrences(agents, k) ==
    IF k > Len(agents) THEN <<>>
    ELSE (IF \A m \in 1..(k - 1) : KeyOf(agents[m]) # KeyOf(agents[k])
          THEN <<agents[k]>> ELSE <<>>) \o FirstOccurrences(agents, k + 1)

\* C18: the output of deduplicate_agents is the input's records that are the
\* first with their key, in the input's order; and the keys in the output
\* are the same for the input in any other order.
C18_FirstOccurrenceWins ==
    (pure.fn = "deduplicate_agents" /\ pure.applied) =>
        /\ pure.out = FirstOccurrences(pure.arg, 1)
        /\ pure.other # <<>> => KeysOf(pure.otherOut) = KeysOf(pure.out)

\* The same records in another order, for which other records were kept.
C18_Witness ==
    /\ pure.fn = "deduplicate_agents" /\ pure.applied
    /\ pure.other # <<>> /\ pure.other # pure.arg
    /\ Len(pure.out) >= 2 /\ Len(pure.out) < Len(pure.arg)
    /\ Range(pure.otherOut) # Range(pure.out)

\* C19: the prefixes of a run are what generate_prefixes gives for its
\* letters: for each letter the letter alone and then the letter with each
\* lowercase letter in alphabet order, no query twice, every query of one or
\* two characters.
C19_PrefixesWellFormed ==
    ~Stopped =>
        /\ prefixes = generate_prefixes(letters)
        /\ \A m \in 1..Len(prefixes) :
              LET pos == (m - 1) % (1 + NumSeconds)
              IN  IF pos = 0 THEN Len(prefixes[m]) = 1
                  ELSE prefixes[m] = <<prefixes[m - pos][1], ascii_lowercase[pos]>>
        /\ \A m, n \in 1..Len(prefixes) : m # n => prefixes[m] # prefixes[n]
        /\ \A m \in 1..Len(prefixes) : Len(prefixes[m]) \in {1, 2}

\* Places of the addresses of the mailto links of a document.
MailtoLinks(doc) == {k \in 2..Len(doc) : doc[k - 1] = "mailto:" /\ doc[k] \in Addresses}

\* C20: from a document with a mailto link the address extracted is that of
\* the (first) mailto link, wherever other addresses stand; from a document
\* without one it is the first address of the text, or None without any.
C20_MailtoPreferred ==
    (pure.fn = "extract_email" /\ pure.applied) =>
        IF MailtoLinks(pure.arg) # {}
        THEN \E k \in MailtoLinks(pure.arg) :
                /\ pure.out = pure.arg[k]
                /\ \A m \in MailtoLinks(pure.arg) : k <= m
        ELSE IF \E k \in 1..Len(pure.arg) : pure.arg[k] \in Addresses
             THEN \E k \in 1..Len(pure.arg) :
                     /\ pure.out = pure.arg[k]
                     /\ \A m \in 1..(k - 1) : pure.arg[m] \notin Addresses
             ELSE pure.out = "none"

\* Another address in the text ahead of the mailto link.
C20_Witness ==
    /\ pure.fn = "extract_email" /\ pure.applied
    /\ MailtoLinks(pure.arg) # {}
    /\ pure.arg[1] \in Addresses /\ pure.arg[1] # pure.out


\* C21: a drillthrough that returns hands back the email address itself (the
\* mailto address when there is one, else the first address in the text),
\* and None when the detail document holds no address.
C21_DrillthroughReturnsEmail ==
    lastCall.op = "drill" /\ ~lastCall.raised =>
        LET email == extract_email(lastCall.doc)
        IN  lastCall.value = IF email = "none" THEN <<"none">> ELSE <<"str", email>>

\* The four writings of one ten-digit number and its canonical text.
Writings ==
    { <<"4", "0", "3", "5", "5", "5", "1", "2", "3", "4">>,
      <<"4", "0", "3", "-", "5", "5", "5", "-", "1", "2", "3", "4">>,
      <<"4", "0", "3", ".", "5", "5", "5", ".", "1", "2", "3", "4">>,
      <<"(", "4", "0", "3", ")", " ", "5", "5", "5", "-", "1", "2", "3", "4">> }
Canonical == <<"(", "4", "0", "3", ")", " ", "5", "5", "5", "-", "1", "2", "3", "4">>
\* The form (NNN) NNN-NNNN.
CanonicalForm(text) ==
    /\ Len(text) = 14
    /\ text[1] = "(" /\ text[5] = ")" /\ text[6] = " " /\ text[10] = "-"
    /\ \A k \in {2, 3, 4, 7, 8, 9, 11, 12, 13, 14} : text[k] \in Digits

\* C22: a ten-digit number written bare, with dashes, with dots or with the
\* area code in parentheses is normalised to the one text (403) 555-1234,
\* and every phone value that is not None has the form (NNN) NNN-NNNN.
C22_PhoneNormalized ==
    pure.fn = "extract_phone" /\ pure.applied =>
        /\ pure.arg \in Writings => pure.out = Some(Canonical)
        /\ ~pure.out.none => CanonicalForm(pure.out.list)
\* The number with the area code in parentheses has been normalised.
C22_Witness ==
    /\ pure.fn = "extract_phone" /\ pure.applied
    /\ pure.arg = Canonical /\ pure.out = Some(Canonical)

\* Whether the two characters are one letter in either case, or the same
\* character.
SameLetter(c, d) ==
    \/ c = d
    \/ \E k \in 1..26 : {c, d} = {UpperLetters[k], LowerLetters[k]}
\* Whether the text holds the signature at some place, in any letter case.
Holds(text, sig) ==
    \E p \in 1..(Len(text) - Len(sig) + 1) :
        \A k \in 1..Len(sig) : SameLetter(text[p + k - 1], sig[k])

PendingAt(k) ==
    /\ all_agents[k].drill_id # ""
    /\ ~is_deep_done(state, all_agents[k].drill_id)

\* C24: in the deep phase, a record whose drillthrough failed has its contact
\* info recorded as empty, the failure does not make the run raise, and at
\* the end of the phase no record with a drill id is left unprocessed.
C24_DrillFailureAbsorbed ==
    lastDrill.failedIds # {} =>
        /\ \A k \in 1..Len(all_agents) :
              all_agents[k].drill_id \in lastDrill.failedIds =>
                  all_agents[k].email = <<"str", "">>
        /\ pc = "raised" => saveFailed
        /\ pc = "done" =>
              /\ \A k \in 1..Len(all_agents) : ~PendingAt(k)
              /\ deepFile = Complete(all_agents)
\* A deep phase has ended in which one drillthrough failed and a later
\* record was enriched.
C24_Witness ==
    /\ pc = "done" /\ lastDrill.failedIds # {} /\ ~lastDrill.failed
    /\ \E k \in 1..Len(all_agents) : all_agents[k].email[1] = "dict"

\* C25: the deep phase resumes without loss: in the deep result sink written
\* at the end of a run, every record whose drill id the checkpoint marks
\* deep-done (drilled in this run, or skipped because an earlier run drilled
\* it) carries the contact info extracted for it.
C25_DeepResumeKeepsContactInfo ==
    pc = "done" /\ deep /\ deepFile.kind = "complete" =>
        \A k \in 1..Len(Content(deepFile)) :
            LET agent == Content(deepFile)[k]
            IN  agent.drill_id # "" /\ is_deep_done(state, agent.drill_id) =>
                    agent.email # NoEmail

\* C27: a sweep that is cancelled stops between two queries or two records,
\* and the checkpoint persisted before is still on disk when the run ends.
C27_CooperativeCancellation ==
    [][pc' = "crashed" =>
          /\ pc \in {"loop", "deep_loop"}
          /\ ckptFile'.kind # "truncated"]_vars

C26_NoInterleaving ==
    \A a, b, c \in 1..Len(journal.ops) :
        a < b /\ b < c /\ journal.ops[a].task = journal.ops[c].task =>
            journal.ops[b].task = journal.ops[a].task

\* C29: a scrape request is handled on exactly one path: without last_name,
\* an error reply, nothing enqueued, no search; async, one enqueue, no search,
\* JOB_QUEUED with the job id enqueue returned or an error reply if it
\* raised; sync, one search, nothing enqueued, SCRAPE_COMPLETED or an error
\* reply.
C29_OnePathPerRequest ==
    \A t \in 1..Len(tasks) :
        LET task == tasks[t]
        IN  task.pc = "done" =>
              IF no_last_name(task.req)
              THEN /\ task.reply = <<"ERROR_OCCURRED">>
                   /\ task.enqueues = 0 /\ task.searches = 0
              ELSE IF task.req.async
              THEN /\ task.enqueues = 1 /\ task.searches = 0
                   /\ \/ /\ task.returned[1] = "job_id"
                         /\ task.reply = <<"JOB_QUEUED", task.returned[2]>>
                      \/ /\ task.returned = <<"raised">>
                         /\ task.reply = <<"ERROR_OCCURRED">>
              ELSE /\ task.searches = 1 /\ task.enqueues = 0
                   /\ task.reply[1] \in {"SCRAPE_COMPLETED", "ERROR_OCCURRED"}
\* An async and a sync request have both been answered, the one with
\* JOB_QUEUED and the other with SCRAPE_COMPLETED.
C29_Witness ==
    /\ Len(tasks) = 2 /\ tasks[1].pc = "done" /\ tasks[2].pc = "done"
    /\ tasks[1].reply[1] = "JOB_QUEUED" /\ tasks[2].reply[1] = "SCRAPE_COMPLETED"
    /\ Len(redis_list) = 1 /\ journal.ops # <<>>

\* C30: within one call of search_with_retry, after the third and after
\* every later failed attempt the initialisation is run again from an
\* uninitialised session before the next attempt (its requests are the last
\* thing sent, after the backoff sleep, and an initialised session holds the
\* fields of the page it returned); when it fails, the loop still goes on to
\* the next attempt or returns None after the last one.
C30_ReinitFromThirdFailure ==
    /\ pc = "attempt" /\ attempt > ReinitFrom =>
          /\ Len(tries) = attempt - 1 /\ AllFail(tries)
          /\ pace.gap = "sent"
          /\ initialized => base_form_data \in served
    /\ pc = "returned" /\ results.none =>
          /\ Len(tries) = MAX_RETRIES
          /\ pace.gap = "sent"
          /\ initialized => base_form_data \in served
\* The last attempt is about to be made on a session whose re-initialisation
\* after the fourth failure has failed.
C30_Witness ==
    /\ pc = "attempt" /\ attempt = MAX_RETRIES /\ Len(tries) = MAX_RETRIES - 1
    /\ ~initialized /\ pace.gap = "sent"

\* The last turns of the current call of search_with_retry, and what made a turn
\* fail: a page with a session-desync signature (invalid postback, event
\* validation) or with a rate-limit signature (too many requests, captcha,
\* blocked).
Turns == IF pure.fn = "search_with_retry" THEN pure.log ELSE <<>>
HasSignature(turn, ks) ==
    /\ turn.cause = "page"
    /\ \E k \in ks : contains(lower(turn.text), error_indicators[k])
Desync(turn) == HasSignature(turn, {3, 4})
RateLimited(turn) == HasSignature(turn, {5, 6, 7})

\* C31: when an attempt fails on a page with a desync signature, the search
\* postback of the next attempt is sent only after the session has been
\* initialised again (by the except block, or by the next attempt itself).
C31_DesyncRetriedAfterReinit ==
    \A k \in 1..(Len(Turns) - 1) :
        Desync(Turns[k]) /\ Turns[k + 1].cause # "init" =>
            Turns[k].reinit = "ok" \/ Turns[k + 1].handshake

\* C32: the delay slept after an attempt that failed on a rate-limit page is
\* strictly longer than any delay slept after an ordinary transient failure
\* of the attempt with the same number.
C32_RateLimitBacksOffLonger ==
    \A k \in 1..Len(Turns) :
        RateLimited(Turns[k]) =>
            \A jitter \in Jitters :
                Turns[k].delay > backoff_delay(Turns[k].attempt, jitter)

\* C33: the delay slept after failed attempt k is min(BASE_DELAY * 2^k +
\* jitter, MAX_DELAY) for a jitter within 0..JITTER_RANGE; it is at most
\* MAX_DELAY, at least BASE_DELAY, and no shorter than the delay slept after
\* the attempt before it.
C33_BackoffDelay ==
    \A k \in 1..Len(Turns) :
        Turns[k].cause # "ok" =>
            /\ Turns[k].attempt \in 1..MAX_RETRIES
            /\ \E jitter \in Jitters :
                 Turns[k].delay =
                     Min(BASE_DELAY * TicksPerSecond * (2 ^ Turns[k].attempt) + jitter,
                         MAX_DELAY * TicksPerSecond)
            /\ Turns[k].delay <= MAX_DELAY * TicksPerSecond
            /\ Turns[k].delay >= BASE_DELAY * TicksPerSecond
            /\ \A l \in 1..(k - 1) :
                 /\ Turns[l].attempt = Turns[k].attempt - 1
                 /\ Turns[l].delay <= Turns[k].delay
\* All max_retries attempts of a call have failed: the delay before the
\* last had the largest jitter and the last one was cut to MAX_DELAY.
C33_Witness ==
    /\ pc = "returned" /\ results.none /\ Len(Turns) = 2
    /\ Turns[2].attempt = MAX_RETRIES
    /\ Turns[1].delay =
         (BASE_DELAY * (2 ^ (MAX_RETRIES - 1)) + JITTER_RANGE) * TicksPerSecond
    /\ Turns[2].delay = MAX_DELAY * TicksPerSecond
    /\ BASE_DELAY * TicksPerSecond * (2 ^ MAX_RETRIES) > MAX_DELAY * TicksPerSecond

\* C34 as stated: a search that returns leaves as baseline exactly the
\* fields of the page it read; a search answered with an error page raises
\* and leaves the baseline as it was before the call.
C34_SearchReplacesBaseline ==
    lastCall.op = "search" =>
        /\ ~lastCall.raised => base_form_data = lastCall.page
        /\ lastCall.resp = "error" =>
              lastCall.raised /\ base_form_data = lastCall.baseBefore

\* C34, amended: a search that returns leaves as baseline exactly the fields
\* of the page it read; a search answered with an error page raises and
\* leaves the baseline as it was when the search postback was sent: the one
\* from before the call on a session found initialised, the one the call's
\* own initialisation set otherwise.
C34_SearchReplacesBaselineSincePost ==
    lastCall.op = "search" =>
        /\ ~lastCall.raised => base_form_data = lastCall.page
        /\ lastCall.resp = "error" =>
              /\ lastCall.raised
              /\ base_form_data =
                    IF lastCall.entryInit THEN lastCall.baseBefore ELSE lastCall.io.page
\* A search on an initialised session whose baseline had four fields has read
\* a page with one: the other three are gone.
C34_Witness ==
    /\ lastCall.op = "search" /\ lastCall.entryInit /\ ~lastCall.raised
    /\ lastCall.baseBefore = Form2 /\ lastCall.page = Form1 /\ base_form_data = Form1

\* The queries completed in this run whose records are in memory only: not
\* every one of them is in the result sink.
SinkKeys == IF resultsFile.kind = "complete" THEN KeysOf(Content(resultsFile)) ELSE {}
Unflushed == {q \in marked : ~(got[q] \subseteq SinkKeys)}

\* C35: whenever the surface sweep is about to take up its next prefix,
\* whatever succeeded, failed or skipped prefixes came before, fewer completed
\* queries than the flush interval have records that are not yet in the
\* result sink.
C35_UnflushedBelowFlushInterval ==
    pc = "loop" => Cardinality(Unflushed) < FlushEvery

\* The drill ids processed that the checkpoint file does not list.
FileIds ==
    IF ckptFile.kind = "complete" THEN Range(Content(ckptFile).deep_completed_ids) ELSE {}
MissingIds == Range(state.deep_completed_ids) \ FileIds

\* C36: when run_deep_scrape has returned, the checkpoint file lists every
\* drill id processed in the phase; during the phase, outside mark_deep_done,
\* fewer processed ids than the save interval are missing from the file.
C36_DeepCheckpointComplete ==
    /\ pc = "done" /\ deep => MissingIds = {}
    /\ pc \in {"deep_loop", "deep_after"} => Cardinality(MissingIds) < DeepSaveEvery

\* The scrapes under way: accepted by a caller that has set the status, and
\* not yet reported by their thread.
Accepted == CallerAt("start")
Scraping == ThreadAt("run") \cup ThreadAt("lock") \cup ThreadAt("update")

C38_RateEnforced ==
    limiter.on =>
        /\ limiter.tokens \in 0..(limiter.rate_limit * TokenTicks)
        /\ \A a \in 1..Len(limiter.completed) : \A b \in a..Len(limiter.completed) :
              (b - a + 1) * TokenTicks <=
                  limiter.rate_limit * TokenTicks
                      + (limiter.completed[b] - limiter.completed[a])

\* C39: every job the worker has taken off the queue was handed to
\* process_job exactly once, an exception absorbed while processing leaves
\* the loop running, and the queue is what was left of it: no job is put
\* back.
C39_EachJobProcessedOnce ==
    worker.on =>
        /\ worker.handed = worker.removed
        /\ worker.pc # "start" => worker.is_running
        /\ redis_list = SubSeq(worker.queued, Len(worker.removed) + 1, Len(worker.queued))

====
